---- MODULE Spec2Model ----
(***************************************************************************)
(* dashUAV: the backend's bounded event store, ingestion and WebSocket     *)
(* fan-out (apps/api/src/backend.js) and the dashboard's deduplicating     *)
(* event buffer and WebSocket receive handler (usv_dash.jsx).              *)
(*                                                                         *)
(* JavaScript values are tagged records: Undef, Null, StrV(s), NumV(n),    *)
(* objects as records with a field k = "object".  A JavaScript string is   *)
(* the sequence of its characters, so that trim() and startsWith() are     *)
(* computed on the characters.                                             *)
(***************************************************************************)
EXTENDS Integers, Sequences, FiniteSets, TLC

VARIABLES
    config,        \* backend.js config: the capacities and the default window
    events,        \* state.events
    telemetry,     \* state.telemetry
    detections,    \* state.detections
    wss,           \* TRUE once attachWebSocketServer has run
    wssClients,    \* wss.clients: the sockets the server holds
    readyState,    \* readyState of every socket
    inbox,         \* the messages sent to every socket, in order
    nextId,        \* how many identifiers safeId has generated
    accepted,      \* the value the last ingestMany returned
    hist,          \* history: every event ever inserted, per collection
    lastBatch,     \* history: the last request's batch, fallback and clock
    dashPos,       \* dashboard: messages of its socket already handled
    dispatched,    \* dashboard: the handler calls made by ws.onmessage
    capFeed,       \* useEventBuffer: capFeed
    capIndex,      \* useEventBuffer: capIndex
    feedRef,       \* useEventBuffer: feedRef.current
    indexRef,      \* useEventBuffer: the LRU's Map, in insertion order
    lastPush,      \* history: the last push, its key and whether it was known
    pc,            \* the statement of ingestMany the backend is at, or "idle"
    frame,         \* ingestMany's locals while it runs
    analysisIn,    \* dashboard: the snapshot an analytics function is called with
    analysisOut,   \* dashboard: what the function returned, Null before the call
    walk,          \* groupOverlappingDetections' locals while it runs, else Null
    version,       \* useEventBuffer: the version state the flush timer bumps
    merged,        \* App: the memoised buf.snapshot() the feed is rendered from
    memoRuns,      \* history: how often the memo of merged was computed
    lastSigRef,    \* App: lastSigRef.current, a Map of drone_id to signature
    dashTelemetry, \* App: the telemetry state
    dashDetections,\* App: the detections state
    poll           \* the HTTP polling loop's locals, Null when it is not mounted

vars == <<config, events, telemetry, detections, wss, wssClients, readyState,
          inbox, nextId, accepted, hist, lastBatch, dashPos, dispatched,
          capFeed, capIndex, feedRef, indexRef, lastPush, pc, frame,
          analysisIn, analysisOut, walk, version, merged, memoRuns, lastSigRef,
          dashTelemetry, dashDetections, poll>>

backendVars == <<config, events, telemetry, detections, wss, wssClients,
                 readyState, inbox, nextId, accepted, hist, lastBatch,
                 dashPos, dispatched, pc, frame>>

bufferVars == <<capFeed, capIndex, feedRef, indexRef, lastPush>>

analyticsVars == <<analysisIn, analysisOut>>

appVars == <<walk, version, merged, memoRuns, lastSigRef, dashTelemetry,
             dashDetections, poll>>

----------------------------------------------------------------------------
(* Bounds *)

MaxIngest == 3      \* events accepted over a run
MaxBatch == 2       \* elements of one request body
MaxCap == 2         \* largest capacity of a backend collection
MaxBufCap == 3      \* largest capFeed / capIndex

----------------------------------------------------------------------------
(* JavaScript values *)

Undef == [k |-> "undefined"]
Null == [k |-> "null"]
StrV(s) == [k |-> "string", s |-> s]
NumV(n) == [k |-> "number", n |-> n]

IsObject(v) == v.k = "object"

\* The value of property f of object o (undefined when o has no such property).
Get(o, f) == IF f \in DOMAIN o THEN o[f] ELSE Undef

\* JavaScript truthiness of the values used here.
Truthy(v) ==
    CASE v.k = "undefined" -> FALSE
      [] v.k = "null" -> FALSE
      [] v.k = "string" -> Len(v.s) > 0
      [] v.k = "number" -> v.n # 0
      [] v.k = "NaN" -> FALSE
      [] OTHER -> TRUE

\* String.prototype.startsWith
StartsWith(s, p) == Len(s) >= Len(p) /\ SubSeq(s, 1, Len(p)) = p

RECURSIVE TrimStart(_)
TrimStart(s) ==
    IF s # <<>> /\ Head(s) = " " THEN TrimStart(Tail(s)) ELSE s

RECURSIVE TrimEnd(_)
TrimEnd(s) ==
    IF s # <<>> /\ s[Len(s)] = " " THEN TrimEnd(SubSeq(s, 1, Len(s) - 1)) ELSE s

\* String.prototype.trim
Trim(s) == TrimEnd(TrimStart(s))

sTelemetry == <<"t", "e", "l", "e", "m", "e", "t", "r", "y">>
sDetection == <<"d", "e", "t", "e", "c", "t", "i", "o", "n">>
sTelemetryUpdate == sTelemetry \o <<":", "u", "p", "d", "a", "t", "e">>
sDetectionNew == sDetection \o <<":", "n", "e", "w">>
sSystemReady == <<"s", "y", "s", "t", "e", "m", ":", "r", "e", "a", "d", "y">>

sIso1 == <<"1", "9", "7", "0", "-", "0", "1", "-", "0", "1", "T", "0", "0", ":",
           "0", "0", ":", "0", "0", ".", "0", "0", "1", "Z">>

NaN == [k |-> "NaN"]

\* Date.parse: the epoch milliseconds of a date string, NaN for any other value.
DateParse(v) ==
    IF v.k = "string" /\ v.s = sIso1 THEN NumV(1) ELSE NaN

\* Number.isFinite
IsFinite(v) == v.k = "number"

\* JSON.stringify followed by JSON.parse of an object: a property whose value
\* is undefined is left out.
JsonRoundTrip(o) ==
    [f \in {"k"} \cup {g \in DOMAIN o \ {"k"} : o[g] # Undef} |-> o[f]]

----------------------------------------------------------------------------
(* apps/api/src/backend.js *)

\* safeId(): the n-th generated identifier, a non-empty string unlike any other.
safeId(n) == StrV([i \in 1..(n + 1) |-> "#"])

\* toTimestamp(value), with now the reading of Date.now().
toTimestamp(value, now) ==
    IF value.k = "number"
    THEN value
    ELSE IF IsFinite(DateParse(value)) THEN DateParse(value) ELSE NumV(now)

sanitisePayload(payload) ==
    IF ~Truthy(payload) \/ ~IsObject(payload) THEN [k |-> "object"] ELSE payload

\* Mutant: the newest entries are dropped on overflow, not the oldest.
pushBoundedDropsNewest(list, item, max) ==
    LET pushed == Append(list, item)
    IN  IF Len(pushed) > max THEN SubSeq(pushed, 1, max) ELSE pushed

pushBounded(list, item, max) ==
    LET pushed == Append(list, item)
    IN  IF Len(pushed) > max
        THEN SubSeq(pushed, Len(pushed) - max + 1, Len(pushed))
        ELSE pushed

\* Mutant: the endpoint's fallback type wins over the record's own type.
normaliseEventFallbackFirst(input, fallbackType, n, now) ==
    IF ~Truthy(input) \/ ~IsObject(input)
    THEN Null
    ELSE LET rawType == Get(input, "type")
             type == IF Truthy(fallbackType)
                     THEN fallbackType
                     ELSE IF rawType.k = "string" THEN StrV(Trim(rawType.s))
                          ELSE Undef
             rawTs == Get(input, "ts")
             ts == toTimestamp(IF rawTs.k \in {"undefined", "null"}
                               THEN NumV(now) ELSE rawTs, now)
             id == IF Truthy(Get(input, "id")) THEN Get(input, "id") ELSE safeId(n)
             rawMeta == Get(input, "meta")
         IN  IF ~Truthy(type)
             THEN Null
             ELSE [k |-> "object", id |-> id, type |-> type, ts |-> ts,
                   payload |-> sanitisePayload(Get(input, "payload")),
                   meta |-> IF Truthy(rawMeta) /\ IsObject(rawMeta)
                            THEN rawMeta ELSE Undef]

\* normaliseEvent(input, fallbackType): Null, or the event.  n is the number of
\* identifiers generated so far and now the reading of Date.now().
normaliseEvent(input, fallbackType, n, now) ==
    IF ~Truthy(input) \/ ~IsObject(input)
    THEN Null
    ELSE LET rawType == Get(input, "type")
             type == IF rawType.k = "string" /\ Len(Trim(rawType.s)) > 0
                     THEN StrV(Trim(rawType.s))
                     ELSE fallbackType
             rawTs == Get(input, "ts")
             ts == toTimestamp(IF rawTs.k \in {"undefined", "null"}
                               THEN NumV(now) ELSE rawTs, now)
             id == IF Truthy(Get(input, "id")) THEN Get(input, "id") ELSE safeId(n)
             rawMeta == Get(input, "meta")
         IN  IF ~Truthy(type)
             THEN Null
             ELSE [k |-> "object",
                   id |-> id,
                   type |-> type,
                   ts |-> ts,
                   payload |-> sanitisePayload(Get(input, "payload")),
                   meta |-> IF Truthy(rawMeta) /\ IsObject(rawMeta)
                            THEN rawMeta ELSE Undef]

\* Whether normaliseEvent called safeId for this input.
GeneratesId(input) == ~Truthy(Get(input, "id"))

\* The message a socket receives for a live event.
EventMessage(evt) == [kind |-> "event", event |-> JsonRoundTrip(evt)]

\* Mutant: an open socket is sent every event twice.
broadcastEventTwice(boxes, evt) ==
    IF ~wss \/ wssClients = {}
    THEN boxes
    ELSE [c \in DOMAIN boxes |->
             IF c \in wssClients /\ readyState[c] = "OPEN"
             THEN boxes[c] \o <<EventMessage(evt), EventMessage(evt)>>
             ELSE boxes[c]]

\* Mutant: the readyState of a client is not looked at.
broadcastEventToAll(boxes, evt) ==
    IF ~wss \/ wssClients = {}
    THEN boxes
    ELSE [c \in DOMAIN boxes |->
             IF c \in wssClients THEN Append(boxes[c], EventMessage(evt))
             ELSE boxes[c]]

\* broadcastEvent(evt) on the sockets' inboxes.
broadcastEvent(boxes, evt) ==
    IF ~wss \/ wssClients = {}
    THEN boxes
    ELSE [c \in DOMAIN boxes |->
             IF c \in wssClients /\ readyState[c] = "OPEN"
             THEN Append(boxes[c], EventMessage(evt))
             ELSE boxes[c]]

\* Mutant: every event is appended to telemetry, whatever its type.
ingestAllAsTelemetry(st, event) ==
    IF ~Truthy(event) THEN st ELSE
    [st EXCEPT !.events = pushBounded(st.events, event, config.maxEvents),
               !.telemetry = pushBounded(st.telemetry, event, config.maxTelemetry),
               !.inbox = broadcastEvent(st.inbox, event),
               !.hEvents = Append(st.hEvents, event),
               !.hTelemetry = Append(st.hTelemetry, event),
               !.accepted = st.accepted + 1]

\* ingest(event) on st = the three collections, the inboxes and the history.
ingest(st, event) ==
    LET isTel == StartsWith(event.type.s, sTelemetry)
        isDet == ~isTel /\ StartsWith(event.type.s, sDetection)
    IN  IF ~Truthy(event) THEN st ELSE
        [events |-> pushBounded(st.events, event, config.maxEvents),
         telemetry |-> IF isTel
                       THEN pushBounded(st.telemetry, event, config.maxTelemetry)
                       ELSE st.telemetry,
         detections |-> IF isDet
                        THEN pushBounded(st.detections, event, config.maxDetections)
                        ELSE st.detections,
         inbox |-> broadcastEvent(st.inbox, event),
         hEvents |-> Append(st.hEvents, event),
         hTelemetry |-> IF isTel THEN Append(st.hTelemetry, event) ELSE st.hTelemetry,
         hDetections |-> IF isDet THEN Append(st.hDetections, event)
                         ELSE st.hDetections,
         nextId |-> st.nextId,
         accepted |-> st.accepted + 1]

\* The elements ingestMany iterates over.
BatchOf(body) == IF body.k = "array" THEN body.items ELSE <<body>>

\* ingestMany's loop from element i on.
RECURSIVE ingestLoop(_, _, _, _, _)

\* Mutant: the loop ends at the first element that is rejected.
ingestLoopStopsAtRejected(st, arr, i, fallbackType, now) ==
    IF i > Len(arr)
    THEN st
    ELSE LET evt == normaliseEvent(arr[i], fallbackType, st.nextId, now)
             used == IF GeneratesId(arr[i]) THEN st.nextId + 1 ELSE st.nextId
         IN  IF Truthy(evt)
             THEN ingestLoop([ingest(st, evt) EXCEPT !.nextId = used], arr, i + 1,
                             fallbackType, now)
             ELSE st

\* Mutant: a rejected element is counted as accepted.
ingestLoopCountsRejected(st, arr, i, fallbackType, now) ==
    IF i > Len(arr)
    THEN st
    ELSE LET evt == normaliseEvent(arr[i], fallbackType, st.nextId, now)
             used == IF GeneratesId(arr[i]) THEN st.nextId + 1 ELSE st.nextId
         IN  IF Truthy(evt)
             THEN ingestLoop([ingest(st, evt) EXCEPT !.nextId = used], arr, i + 1,
                             fallbackType, now)
             ELSE ingestLoop([st EXCEPT !.accepted = st.accepted + 1], arr, i + 1,
                             fallbackType, now)

ingestLoop(st, arr, i, fallbackType, now) ==
    IF i > Len(arr)
    THEN st
    ELSE LET evt == normaliseEvent(arr[i], fallbackType, st.nextId, now)
             used == IF evt # Null /\ GeneratesId(arr[i])
                     THEN st.nextId + 1 ELSE st.nextId
             next == IF Truthy(evt)
                     THEN [ingest(st, evt) EXCEPT !.nextId = used]
                     ELSE st
         IN  ingestLoop(next, arr, i + 1, fallbackType, now)

\* ingestMany(events, fallbackType): the state after it, with its return value
\* in the field accepted.
ingestMany(body, fallbackType, now) ==
    ingestLoop([events |-> events, telemetry |-> telemetry,
                detections |-> detections, inbox |-> inbox,
                hEvents |-> hist.events, hTelemetry |-> hist.telemetry,
                hDetections |-> hist.detections,
                nextId |-> nextId, accepted |-> 0],
               BatchOf(body), 1, fallbackType, now)

----------------------------------------------------------------------------
(* The requests the backend is driven with *)

sA == <<"a">>
sB == <<"b">>
sD1 == <<"D", "1">>
sX1 == <<"X", "1">>

\* Raw records of a request body: rejected ones, ones that rely on the
\* endpoint's fallback type, and ones that carry their own type.
RawNull == Null
RawNumber == NumV(7)
RawBare ==
    [k |-> "object", id |-> StrV(<<>>), type |-> StrV(<<" ", " ">>),
     payload |-> [k |-> "object", drone_id |-> StrV(sD1)]]
RawTelemetry ==
    [k |-> "object", id |-> StrV(sA), ts |-> NumV(1),
     type |-> StrV(<<" ">> \o sTelemetryUpdate \o <<" ">>),
     payload |-> [k |-> "object", drone_id |-> StrV(sD1)]]
RawDetection ==
    [k |-> "object", id |-> StrV(sB), ts |-> NumV(2), type |-> StrV(sDetectionNew),
     payload |-> [k |-> "object", detection_id |-> StrV(sX1)],
     meta |-> [k |-> "object", src |-> StrV(sA)]]
RawSystem ==
    [k |-> "object", type |-> StrV(sSystemReady), ts |-> StrV(sIso1),
     payload |-> Null, meta |-> StrV(sA)]

RawRecords ==
    {RawNull, RawNumber, RawBare, RawTelemetry, RawDetection, RawSystem}

ArrayV(items) == [k |-> "array", items |-> items]

SeqsUpTo(S, n) == UNION {[1..m -> S] : m \in 0..n}

\* The records of array bodies: a rejected one, one that takes the endpoint's
\* fallback type (rejected where there is none) and one with its own type.
ArrayRecords == {RawNull, RawBare, RawDetection}

\* A request body: one record, or an array of records.
Bodies == RawRecords \cup {ArrayV(items) : items \in SeqsUpTo(ArrayRecords, MaxBatch)}

\* The reading of Date.now(): a logical clock that has advanced by one with
\* every event accepted so far.
Now == Len(hist.events) + 1

\* The configurations the backend is created with: every collection holds at
\* least one event, and events at least as many as the other two.
Configs ==
    {[maxEvents |-> c + 1, maxTelemetry |-> c, maxDetections |-> c,
      defaultEventLimit |-> l] : c \in 1..MaxCap, l \in {MaxCap}}

Sockets == {"dash", "peer"}

----------------------------------------------------------------------------
(* The backend without a WebSocket server: POST requests only *)

InitAnalytics ==
    /\ analysisIn = Null
    /\ analysisOut = Null

\* The dashboard before it is mounted.
InitApp ==
    /\ walk = Null
    /\ version = 0
    /\ merged = <<>>
    /\ memoRuns = 0
    /\ lastSigRef = <<>>
    /\ dashTelemetry = <<>>
    /\ dashDetections = <<>>
    /\ poll = Null

InitBuffer ==
    /\ capFeed = 1
    /\ capIndex = 1
    /\ feedRef = <<>>
    /\ indexRef = <<>>
    /\ lastPush = Null

InitBackend(configs) ==
    /\ config \in configs
    /\ events = <<>>
    /\ telemetry = <<>>
    /\ detections = <<>>
    /\ wss = FALSE
    /\ wssClients = {}
    /\ readyState = [c \in Sockets |-> "NONE"]
    /\ inbox = [c \in Sockets |-> <<>>]
    /\ nextId = 0
    /\ accepted = 0
    /\ hist = [events |-> <<>>, telemetry |-> <<>>, detections |-> <<>>]
    /\ lastBatch = Null
    /\ dashPos = 0
    /\ dispatched = <<>>
    /\ pc = "idle"
    /\ frame = Null

Init == InitBackend(Configs) /\ InitBuffer /\ InitAnalytics /\ InitApp

\* A POST handler: ingestMany(req.body, fallbackType).
Post(body, fallbackType, now) ==
    /\ Len(hist.events) + Len(BatchOf(body)) <= MaxIngest
    /\ \E st \in {ingestMany(body, fallbackType, now)} :
           /\ events' = st.events
           /\ telemetry' = st.telemetry
           /\ detections' = st.detections
           /\ inbox' = st.inbox
           /\ nextId' = st.nextId
           /\ accepted' = st.accepted
           /\ hist' = [events |-> st.hEvents, telemetry |-> st.hTelemetry,
                       detections |-> st.hDetections]
    /\ lastBatch' = [k |-> "request", body |-> body, fallbackType |-> fallbackType,
                     now |-> now, nextId |-> nextId]
    /\ UNCHANGED <<config, wss, wssClients, readyState, dashPos, dispatched>>
    /\ UNCHANGED bufferVars
    /\ UNCHANGED appVars
    /\ UNCHANGED analyticsVars
    /\ UNCHANGED <<pc, frame>>

PostTelemetry == \E body \in Bodies : Post(body, StrV(sTelemetryUpdate), Now)

PostDetections == \E body \in Bodies : Post(body, StrV(sDetectionNew), Now)

PostEvents == \E body \in Bodies : Post(body, Undef, Now)

Next == PostTelemetry \/ PostDetections \/ PostEvents

Spec == Init /\ [][Next]_vars

\* The totals of GET /api/summary.
querySummaryTotals ==
    [events |-> Len(events), telemetry |-> Len(telemetry),
     detections |-> Len(detections)]

----------------------------------------------------------------------------
(* Properties of the store *)

Min(a, b) == IF a < b THEN a ELSE b

\* The last n elements of h (all of h when it is shorter).
LastN(h, n) == SubSeq(h, Len(h) - Min(Len(h), n) + 1, Len(h))

IsTelemetryType(e) == StartsWith(e.type.s, sTelemetry)
IsDetectionType(e) == StartsWith(e.type.s, sDetection)

\* The events the step appended to a history.
Added(before, after) == SubSeq(after, Len(before) + 1, Len(after))

\* A step that handled a request.
IsRequest == lastBatch' # lastBatch

\* C1: after every insert each of the three collections is no longer than its
\* configured capacity and holds exactly the last min(n, capacity) events ever
\* inserted into it, in insertion order.
C1_BoundedCollections ==
    /\ Len(events) <= config.maxEvents
    /\ Len(telemetry) <= config.maxTelemetry
    /\ Len(detections) <= config.maxDetections
    /\ events = LastN(hist.events, config.maxEvents)
    /\ telemetry = LastN(hist.telemetry, config.maxTelemetry)
    /\ detections = LastN(hist.detections, config.maxDetections)

\* Every collection has overflowed and evicted.
C1_Witness ==
    /\ Len(hist.events) > config.maxEvents
    /\ Len(hist.telemetry) > config.maxTelemetry
    /\ Len(events) = config.maxEvents
    /\ Len(telemetry) = config.maxTelemetry

\* The record's own type: a string with a character that is not a space.
HasOwnType(raw) ==
    /\ Get(raw, "type").k = "string"
    /\ \E i \in 1..Len(raw.type.s) : raw.type.s[i] # " "

\* t is s without the spaces around it.
IsTrimOf(t, s) ==
    /\ t # <<>>
    /\ Head(t) # " "
    /\ t[Len(t)] # " "
    /\ \E a \in 0..Len(s) :
          /\ a + Len(t) <= Len(s)
          /\ SubSeq(s, a + 1, a + Len(t)) = t
          /\ \A i \in 1..Len(s) : (i <= a \/ i > a + Len(t)) => s[i] = " "

\* C2: every accepted event is appended to events, and also to telemetry iff
\* its resolved type starts with "telemetry", otherwise to detections iff it
\* starts with "detection", otherwise to neither; the resolved type is the
\* record's own trimmed type and the fallback only when the record has none.
C2_Routing ==
    [][IsRequest =>
        LET new == Added(hist.events, hist'.events)
            newTel == Added(hist.telemetry, hist'.telemetry)
            newDet == Added(hist.detections, hist'.detections)
            OnlyDet(e) == ~IsTelemetryType(e) /\ IsDetectionType(e)
            req == lastBatch'
        IN  /\ newTel = SelectSeq(new, IsTelemetryType)
            /\ newDet = SelectSeq(new, OnlyDet)
            /\ new # <<>> => events'[Len(events')] = new[Len(new)]
            /\ newTel # <<>> => telemetry'[Len(telemetry')] = newTel[Len(newTel)]
            /\ newDet # <<>> => detections'[Len(detections')] = newDet[Len(newDet)]
            /\ newTel = <<>> => telemetry' = telemetry
            /\ newDet = <<>> => detections' = detections
            /\ (req.body.k = "object" /\ new # <<>>) =>
                  /\ Len(new) = 1
                  /\ IF HasOwnType(req.body)
                     THEN IsTrimOf(new[1].type.s, req.body.type.s)
                     ELSE new[1].type = req.fallbackType
            /\ (req.body = RawBare /\ req.fallbackType = StrV(sTelemetryUpdate)) =>
                  /\ Len(new) = 1
                  /\ newTel = new
                  /\ newDet = <<>>
                  /\ new[1].type.s = sTelemetryUpdate
    ]_vars

\* A record without a type was posted to /api/telemetry, and a record with its
\* own padded type was stored under the trimmed type.
C2_Witness ==
    /\ lastBatch # Null
    /\ lastBatch.body = RawBare
    /\ lastBatch.fallbackType = StrV(sTelemetryUpdate)
    /\ Len(hist.telemetry) >= 2
    /\ \E i \in 1..Len(hist.telemetry) : hist.telemetry[i].id = StrV(sA)
    /\ Len(hist.detections) = 0

CountOf(h, Test(_)) == Len(SelectSeq(h, Test))

\* C9: after k telemetry-typed and m detection-typed events and no others,
\* with k, m and k+m below the capacities, the summary totals are k+m, k, m.
C9_SummaryTotals ==
    LET k == CountOf(hist.events, IsTelemetryType)
        m == CountOf(hist.events, IsDetectionType)
    IN  (/\ Len(hist.events) = k + m
         /\ k < config.maxTelemetry
         /\ m < config.maxDetections
         /\ k + m < config.maxEvents)
        => querySummaryTotals = [events |-> k + m, telemetry |-> k, detections |-> m]

\* One telemetry and one detection event were ingested, below every capacity.
C9_Witness ==
    /\ CountOf(hist.events, IsTelemetryType) = 1
    /\ CountOf(hist.events, IsDetectionType) = 1
    /\ Len(hist.events) = 2
    /\ 1 < config.maxTelemetry
    /\ 1 < config.maxDetections
    /\ 2 < config.maxEvents
    /\ IsDetectionType(hist.events[1])

\* Whether the normalizer accepts raw under the fallback type.
Acceptable(raw, fallbackType) ==
    /\ raw.k = "object"
    /\ HasOwnType(raw) \/ (fallbackType.k = "string" /\ fallbackType.s # <<>>)

\* C10: ingestMany treats a non-array body as a one-element batch, returns the
\* number of elements that normalize, and stores the accepted elements in
\* batch order whatever elements are rejected before or after them.
C10_BatchCount ==
    [][IsRequest =>
        LET req == lastBatch'
            arr == IF req.body.k = "array" THEN req.body.items ELSE <<req.body>>
            AcceptableHere(raw) == Acceptable(raw, req.fallbackType)
            good == SelectSeq(arr, AcceptableHere)
            new == Added(hist.events, hist'.events)
        IN  /\ accepted' = Len(good)
            /\ Len(new) = Len(good)
            /\ \A j \in 1..Len(good) :
                  new[j].payload = sanitisePayload(Get(good[j], "payload"))
    ]_vars

\* A batch whose first element is rejected and whose second is accepted.
C10_Witness ==
    /\ lastBatch # Null
    /\ lastBatch.body.k = "array"
    /\ Len(lastBatch.body.items) >= 2
    /\ lastBatch.body.items[1] = RawNull
    /\ lastBatch.body.items[2] = RawDetection
    /\ accepted = Len(lastBatch.body.items) - 1
    /\ hist.events # <<>>
    /\ hist.events[Len(hist.events)].payload = RawDetection.payload

----------------------------------------------------------------------------
(* The backend with its WebSocket server, and the dashboard's socket *)

HelloMessage == [kind |-> "hello", message |-> "DashUAV stream ready"]

SnapshotMessage(snapshot) ==
    [kind |-> "snapshot",
     events |-> [i \in 1..Len(snapshot) |-> JsonRoundTrip(snapshot[i])]]

\* Array.prototype.slice(-n) for n > 0.
SliceLast(list, n) ==
    SubSeq(list, IF Len(list) > n THEN Len(list) - n + 1 ELSE 1, Len(list))

\* Mutant: the snapshot is cut from the front of the collection.
OnConnectionOldest(list) ==
    LET snapshot == SubSeq(list, 1, Min(Len(list), config.defaultEventLimit))
    IN  <<HelloMessage>> \o
        (IF Len(snapshot) # 0 THEN <<SnapshotMessage(snapshot)>> ELSE <<>>)

\* The messages the 'connection' handler sends to the new socket.
OnConnection(list) ==
    LET snapshot == SliceLast(list, config.defaultEventLimit)
    IN  <<HelloMessage>> \o
        (IF Len(snapshot) # 0 THEN <<SnapshotMessage(snapshot)>> ELSE <<>>)

\* attachWebSocketServer(server)
AttachWebSocketServer ==
    /\ ~wss
    /\ wss' = TRUE
    /\ UNCHANGED <<config, events, telemetry, detections, wssClients, readyState,
                   inbox, nextId, accepted, hist, lastBatch, dashPos, dispatched>>
    /\ UNCHANGED bufferVars
    /\ UNCHANGED appVars
    /\ UNCHANGED analyticsVars
    /\ UNCHANGED <<pc, frame>>

\* A client connects: the server adds its socket to wss.clients and runs the
\* 'connection' handler.
Connect(c) ==
    /\ wss
    /\ readyState[c] = "NONE"
    /\ wssClients' = wssClients \cup {c}
    /\ readyState' = [readyState EXCEPT ![c] = "OPEN"]
    /\ inbox' = [inbox EXCEPT ![c] = OnConnection(events)]
    /\ UNCHANGED <<config, events, telemetry, detections, wss, nextId, accepted,
                   hist, lastBatch, dashPos, dispatched>>
    /\ UNCHANGED bufferVars
    /\ UNCHANGED appVars
    /\ UNCHANGED analyticsVars
    /\ UNCHANGED <<pc, frame>>

\* The closing handshake of a socket starts: it stays in wss.clients.
SocketClosing(c) ==
    /\ readyState[c] = "OPEN"
    /\ readyState' = [readyState EXCEPT ![c] = "CLOSING"]
    /\ UNCHANGED <<config, events, telemetry, detections, wss, wssClients, inbox,
                   nextId, accepted, hist, lastBatch, dashPos, dispatched>>
    /\ UNCHANGED bufferVars
    /\ UNCHANGED appVars
    /\ UNCHANGED analyticsVars
    /\ UNCHANGED <<pc, frame>>

\* The socket has closed: the server drops it from wss.clients.
SocketClosed(c) ==
    /\ readyState[c] = "CLOSING"
    /\ readyState' = [readyState EXCEPT ![c] = "CLOSED"]
    /\ wssClients' = wssClients \ {c}
    /\ UNCHANGED <<config, events, telemetry, detections, wss, inbox, nextId,
                   accepted, hist, lastBatch, dashPos, dispatched>>
    /\ UNCHANGED bufferVars
    /\ UNCHANGED appVars
    /\ UNCHANGED analyticsVars
    /\ UNCHANGED <<pc, frame>>

\* usv_dash.jsx, ws.onmessage: the handler the message is given to.
DispatchOf(msg) ==
    LET type == Get(msg, "type")
        t == IF Truthy(type) THEN type ELSE StrV(<<>>)
    IN  IF t.k # "string" THEN "none"
        ELSE IF StartsWith(t.s, sTelemetry) THEN "onTelemetry"
        ELSE IF StartsWith(t.s, sDetection) THEN "onDetection"
        ELSE "none"

\* The dashboard's socket delivers its next message to ws.onmessage.
DashOnMessage ==
    /\ dashPos < Len(inbox["dash"])
    /\ dashPos' = dashPos + 1
    /\ LET msg == inbox["dash"][dashPos + 1]
       IN  dispatched' = IF DispatchOf(msg) = "none"
                         THEN dispatched
                         ELSE Append(dispatched,
                                     [handler |-> DispatchOf(msg), evt |-> msg])
    /\ UNCHANGED <<config, events, telemetry, detections, wss, wssClients,
                   readyState, inbox, nextId, accepted, hist, lastBatch>>
    /\ UNCHANGED bufferVars
    /\ UNCHANGED appVars
    /\ UNCHANGED analyticsVars
    /\ UNCHANGED <<pc, frame>>

\* The request bodies of the specifications with sockets: a rejected record,
\* a telemetry record, a record of neither prefix, and a batch of records that
\* take the endpoint's fallback type (rejected by /api/events).
WsBodies ==
    {RawNull, RawTelemetry, RawSystem, ArrayV([i \in 1..MaxBatch |-> RawBare])}

WsPostTelemetry == \E body \in WsBodies : Post(body, StrV(sTelemetryUpdate), Now)

WsPostDetections == \E body \in WsBodies : Post(body, StrV(sDetectionNew), Now)

WsPostEvents == \E body \in WsBodies : Post(body, Undef, Now)

\* The configurations of this specification: default windows shorter than,
\* and as long as, the events collection.
WsConfigs ==
    {[maxEvents |-> MaxCap, maxTelemetry |-> MaxCap, maxDetections |-> MaxCap,
      defaultEventLimit |-> l] : l \in 1..MaxCap}

InitWs == InitBackend(WsConfigs) /\ InitBuffer /\ InitAnalytics /\ InitApp

NextWs ==
    \/ AttachWebSocketServer
    \/ \E c \in Sockets : Connect(c)
    \/ \E c \in Sockets : SocketClosing(c)
    \/ \E c \in Sockets : SocketClosed(c)
    \/ WsPostTelemetry
    \/ WsPostDetections
    \/ WsPostEvents

SpecWs == InitWs /\ [][NextWs]_vars

\* The dashboard connected to the backend's WebSocket endpoint.
NextDash ==
    \/ AttachWebSocketServer
    \/ Connect("dash")
    \/ WsPostTelemetry
    \/ WsPostDetections
    \/ WsPostEvents
    \/ DashOnMessage

SpecDash == InitWs /\ [][NextDash]_vars

----------------------------------------------------------------------------
(* Properties of the fan-out *)

\* C3: a broadcast event is sent exactly once to every socket that is open at
\* that moment and to no other socket; a closing or closed socket is skipped
\* and the open ones still get the event.
C3_Broadcast ==
    [][hist'.events # hist.events =>
        LET new == Added(hist.events, hist'.events)
        IN  \A c \in Sockets :
              IF readyState[c] = "OPEN"
              THEN /\ Len(inbox'[c]) = Len(inbox[c]) + Len(new)
                   /\ SubSeq(inbox'[c], 1, Len(inbox[c])) = inbox[c]
                   /\ \A j \in 1..Len(new) :
                        LET m == inbox'[c][Len(inbox[c]) + j]
                        IN  /\ m.kind = "event"
                            /\ m.event.id = new[j].id
                            /\ m.event.type = new[j].type
                            /\ m.event.ts = new[j].ts
                            /\ m.event.payload = new[j].payload
              ELSE inbox'[c] = inbox[c]
    ]_vars

\* Both sockets connected before any event; an event was then broadcast while
\* one was open and the other closing: only the open one received it.
C3_Witness ==
    /\ readyState["dash"] = "OPEN"
    /\ readyState["peer"] = "CLOSING"
    /\ inbox["peer"] = <<HelloMessage>>
    /\ Len(inbox["dash"]) = 2
    /\ inbox["dash"][2].kind = "event"
    /\ Len(hist.events) = 1

\* C4: a new subscription first receives the greeting, then, iff the events
\* collection is not empty at connect time, one snapshot of the last
\* min(length, defaultEventLimit) events in storage order, and only then live
\* 'event' messages.
C4_Greeting ==
    /\ [][\A c \in Sockets :
            (readyState[c] = "NONE" /\ readyState'[c] = "OPEN") =>
               LET n == Min(Len(events), config.defaultEventLimit)
                   tail == [i \in 1..n |-> JsonRoundTrip(events[Len(events) - n + i])]
               IN  inbox'[c] =
                     IF events = <<>>
                     THEN <<[kind |-> "hello", message |-> "DashUAV stream ready"]>>
                     ELSE <<[kind |-> "hello", message |-> "DashUAV stream ready"],
                            [kind |-> "snapshot", events |-> tail]>>
       ]_vars
    /\ [](\A c \in Sockets :
            /\ (readyState[c] # "NONE") =>
                   (inbox[c] # <<>> /\ inbox[c][1].kind = "hello")
            /\ \A i \in 1..Len(inbox[c]) :
                  /\ inbox[c][i].kind = "hello" => i = 1
                  /\ inbox[c][i].kind = "snapshot" => i = 2
                  /\ inbox[c][i].kind = "event" => i >= 2)

\* A socket connected when events held more than defaultEventLimit events, got
\* the greeting and a snapshot of defaultEventLimit events, and then one live
\* event.
C4_Witness ==
    \E c \in Sockets :
        /\ Len(inbox[c]) = 3
        /\ inbox[c][2].kind = "snapshot"
        /\ Len(inbox[c][2].events) = config.defaultEventLimit
        /\ inbox[c][3].kind = "event"
        /\ Len(hist.events) = config.defaultEventLimit + 2

\* C5: every telemetry or detection event the backend broadcasts to the
\* connected dashboard is given to the dashboard's onTelemetry or onDetection
\* handler once the dashboard has handled the message.
C5_DashboardDispatch ==
    \A i \in 1..dashPos :
        LET m == inbox["dash"][i]
        IN  m.kind = "event" =>
              /\ IsTelemetryType(m.event) =>
                   \E j \in 1..Len(dispatched) :
                      /\ dispatched[j].handler = "onTelemetry"
                      /\ dispatched[j].evt \in {m, m.event}
              /\ (~IsTelemetryType(m.event) /\ IsDetectionType(m.event)) =>
                   \E j \in 1..Len(dispatched) :
                      /\ dispatched[j].handler = "onDetection"
                      /\ dispatched[j].evt \in {m, m.event}

----------------------------------------------------------------------------
(* usv_dash.jsx: validateEvent, eventKey, makeLRU, useEventBuffer *)

BucketMs == 250

Digits == <<"0", "1", "2", "3", "4", "5", "6", "7", "8", "9">>

\* The decimal digits of a natural number.
RECURSIVE NatToStr(_)
NatToStr(n) ==
    IF n < 10 THEN <<Digits[n + 1]>>
    ELSE NatToStr(n \div 10) \o <<Digits[(n % 10) + 1]>>

\* The string a template literal makes of a value.
ToStr(v) ==
    CASE v.k = "string" -> v.s
      [] v.k = "number" -> IF v.n < 0 THEN <<"-">> \o NatToStr(-v.n) ELSE NatToStr(v.n)
      [] v.k = "NaN" -> <<"N", "a", "N">>
      [] v.k = "undefined" -> <<"u", "n", "d", "e", "f", "i", "n", "e", "d">>
      [] v.k = "null" -> <<"n", "u", "l", "l">>
      [] OTHER -> <<"[", "o", "b", "j", "e", "c", "t", "]">>

\* Mutant: the bucket is the nearest multiple of the width, not the one below.
BucketRounded(ts) ==
    IF ts.k = "number" THEN NumV((ts.n + BucketMs \div 2) \div BucketMs) ELSE NaN

\* Math.floor(ts / 250)
Bucket(ts) == IF ts.k = "number" THEN NumV(ts.n \div BucketMs) ELSE NaN

validateEvent(evt) ==
    /\ Truthy(evt)
    /\ IsObject(evt)
    /\ Truthy(Get(evt, "id"))
    /\ Truthy(Get(evt, "ts"))
    /\ Truthy(Get(evt, "type"))
    /\ Get(evt, "ts").k \in {"number", "string"}
    /\ Truthy(Get(evt, "payload"))
    /\ IsObject(Get(evt, "payload"))

\* payload?.f
PayloadGet(evt, f) ==
    IF Get(evt, "payload").k \in {"undefined", "null"} THEN Undef
    ELSE Get(Get(evt, "payload"), f)

Throws == [k |-> "throws"]

\* eventKey(evt): the key, or Throws where evt.type.startsWith is no function.
eventKey(evt) ==
    IF ~Truthy(evt) THEN <<>>
    ELSE LET type == Get(evt, "type")
             ts == IF Get(evt, "ts").k = "number" THEN evt.ts
                   ELSE DateParse(Get(evt, "ts"))
         IN  IF Truthy(type) /\ type.k # "string" THEN Throws
             ELSE IF /\ Truthy(type)
                     /\ StartsWith(type.s, sDetection)
                     /\ Truthy(PayloadGet(evt, "detection_id"))
             THEN <<"d", "e", "t", ":">> \o ToStr(PayloadGet(evt, "detection_id"))
             ELSE IF /\ Truthy(type)
                     /\ StartsWith(type.s, sTelemetry)
                     /\ Truthy(PayloadGet(evt, "drone_id"))
             THEN <<"t", "e", "l", ":">> \o ToStr(PayloadGet(evt, "drone_id"))
                      \o <<":">> \o ToStr(Bucket(ts))
             ELSE <<"e", "v", "t", ":">>
                      \o ToStr(IF Truthy(Get(evt, "id")) THEN evt.id ELSE Get(evt, "ts"))

\* makeLRU(capacity).has(k) on the Map m, a sequence of entries in insertion
\* order.
LruHas(m, key) == \E i \in 1..Len(m) : m[i].key = key

\* Mutant: setting a key the map holds moves it to the end, as a
\* least-recently-used cache would.
MapSetMovesToEnd(m, key, v) ==
    LET IsOther(e) == e.key # key
    IN  Append(SelectSeq(m, IsOther), [key |-> key, value |-> v])

\* Map.prototype.set: an existing key keeps its place.
MapSet(m, key, v) ==
    IF LruHas(m, key)
    THEN [i \in 1..Len(m) |-> IF m[i].key = key THEN [key |-> key, value |-> v]
                                ELSE m[i]]
    ELSE Append(m, [key |-> key, value |-> v])

\* Mutant: the newest key is evicted, not the oldest.
LruSetEvictsNewest(m, key, v, capacity) ==
    LET set == MapSet(m, key, v)
    IN  IF Len(set) > capacity THEN SubSeq(set, 1, Len(set) - 1) ELSE set

\* makeLRU(capacity).set(k, v)
LruSet(m, key, v, capacity) ==
    LET set == MapSet(m, key, v)
    IN  IF Len(set) > capacity THEN Tail(set) ELSE set

\* Mutant: an event whose key is in the index takes the place of the feed
\* entries of that key.
pushReplacesShown(buf, evt) ==
    IF ~validateEvent(evt) \/ eventKey(evt) = Throws THEN buf
    ELSE IF LruHas(buf.index, eventKey(evt))
    THEN [index |-> LruSet(buf.index, eventKey(evt), evt, capIndex),
          feed |-> [i \in 1..Len(buf.feed) |->
                       IF eventKey(buf.feed[i]) = eventKey(evt) THEN evt
                       ELSE buf.feed[i]]]
    ELSE [index |-> LruSet(buf.index, eventKey(evt), evt, capIndex),
          feed |-> pushBounded(buf.feed, evt, capFeed)]

\* Mutant: an event whose key is in the index is appended all the same.
pushAlwaysAppends(buf, evt) ==
    IF ~validateEvent(evt) \/ eventKey(evt) = Throws THEN buf
    ELSE [index |-> LruSet(buf.index, eventKey(evt), evt, capIndex),
          feed |-> pushBounded(buf.feed, evt, capFeed)]

\* useEventBuffer's push(evt) on buf = the index and the feed.
push(buf, evt) ==
    IF ~validateEvent(evt) THEN buf
    ELSE LET key == eventKey(evt)
         IN  IF key = Throws THEN buf
             ELSE IF LruHas(buf.index, key)
             THEN [buf EXCEPT !.index = LruSet(buf.index, key, evt, capIndex)]
             ELSE [index |-> LruSet(buf.index, key, evt, capIndex),
                   feed |-> LET pushed == Append(buf.feed, evt)
                            IN  IF Len(pushed) > capFeed
                                THEN SubSeq(pushed, Len(pushed) - capFeed + 1,
                                            Len(pushed))
                                ELSE pushed]

\* snapshot()'s loop from index i down: the entries kept, newest first.
RECURSIVE snapshotLoop(_, _, _)
snapshotLoop(feed, i, seen) ==
    IF i < 1 THEN <<>>
    ELSE LET key == eventKey(feed[i])
         IN  IF key \notin seen
             THEN <<feed[i]>> \o snapshotLoop(feed, i - 1, seen \cup {key})
             ELSE snapshotLoop(feed, i - 1, seen)

Reverse(seq) == [i \in 1..Len(seq) |-> seq[Len(seq) + 1 - i]]

\* Mutant: of the entries of one key the oldest is kept.
snapshotOfKeepsOldest(feed) ==
    LET Oldest(i) == \A j \in 1..(i - 1) : eventKey(feed[j]) # eventKey(feed[i])
        kept == SelectSeq([i \in 1..Len(feed) |-> i], Oldest)
    IN  [n \in 1..Len(kept) |-> feed[kept[n]]]

\* Mutant: the feed is returned as it is.
snapshotOfFeedAsIs(feed) == feed

\* useEventBuffer's snapshot()
snapshotOf(feed) == Reverse(snapshotLoop(feed, Len(feed), {}))

snapshot == snapshotOf(feedRef)

----------------------------------------------------------------------------
(* The events the buffer is driven with *)

sC == <<"c">>
sE == <<"e">>

TelEvent(id, ts) ==
    [k |-> "object", id |-> StrV(id), ts |-> NumV(ts), type |-> StrV(sTelemetryUpdate),
     payload |-> [k |-> "object", drone_id |-> StrV(sD1)]]

DetEvent(id, ts) ==
    [k |-> "object", id |-> StrV(id), ts |-> NumV(ts), type |-> StrV(sDetectionNew),
     payload |-> [k |-> "object", detection_id |-> StrV(sX1)]]

\* Two telemetry events of one 250 ms window and one of the next, two events of
\* one detection, an event keyed by its id, and records validateEvent drops.
EvT1 == TelEvent(sA, 100)
EvT2 == TelEvent(sB, 200)
EvT3 == TelEvent(sC, 300)
EvX1 == DetEvent(sD1, 100)
EvX2 == DetEvent(sE, 900)
EvSys ==
    [k |-> "object", id |-> StrV(sA), ts |-> StrV(sIso1), type |-> StrV(sSystemReady),
     payload |-> [k |-> "object"]]
EvNoPayload == [k |-> "object", id |-> StrV(sA), ts |-> NumV(100), type |-> StrV(sSystemReady)]
EvNumType ==
    [k |-> "object", id |-> StrV(sA), ts |-> NumV(100), type |-> NumV(7),
     payload |-> [k |-> "object"]]

\* Further records validateEvent drops: one that is no object, one without id,
\* one whose ts is an object and one whose payload is a string.
EvNoId ==
    [k |-> "object", ts |-> NumV(100), type |-> StrV(sSystemReady),
     payload |-> [k |-> "object"]]
EvObjectTs ==
    [k |-> "object", id |-> StrV(sA), ts |-> [k |-> "object"],
     type |-> StrV(sSystemReady), payload |-> [k |-> "object"]]
EvStringPayload ==
    [k |-> "object", id |-> StrV(sA), ts |-> NumV(100), type |-> StrV(sSystemReady),
     payload |-> StrV(sA)]

BufEvents == {EvT1, EvT2, EvT3, EvX1, EvX2, EvSys, EvNoPayload, EvNumType, Null}

\* The records of the specification of what push drops: three valid events and
\* the records above.
DropEvents == {EvT1, EvX1, EvSys, EvNoPayload, EvNumType, Null, RawNumber, EvNoId,
               EvObjectTs, EvStringPayload}

InitBuf ==
    /\ InitBackend({c \in WsConfigs : c.defaultEventLimit = 1})
    /\ capFeed \in 1..MaxBufCap
    /\ capIndex \in 1..MaxBufCap
    /\ feedRef = <<>>
    /\ indexRef = <<>>
    /\ lastPush = Null
    /\ InitAnalytics
    /\ InitApp

\* A caller pushes evt.
Push(evt) ==
    /\ \E buf \in {push([index |-> indexRef, feed |-> feedRef], evt)} :
          /\ indexRef' = buf.index
          /\ feedRef' = buf.feed
    /\ lastPush' = [k |-> "push", evt |-> evt, feedLen |-> Len(feedRef),
                    indexLen |-> Len(indexRef),
                    known |-> LruHas(indexRef, eventKey(evt))]
    /\ UNCHANGED <<capFeed, capIndex>>
    /\ UNCHANGED backendVars
    /\ UNCHANGED analyticsVars
    /\ UNCHANGED appVars

NextBuf == \E evt \in BufEvents : Push(evt)

SpecBuf == InitBuf /\ [][NextBuf]_vars

NextDrop == \E evt \in DropEvents : Push(evt)

SpecDrop == InitBuf /\ [][NextDrop]_vars

----------------------------------------------------------------------------
(* Properties of the deduplicating buffer *)

\* A step that pushed lastPush'.evt.
IsPush == lastPush' # lastPush

\* The event has passed validateEvent and has a logical key.
HasKey(evt) == validateEvent(evt) /\ eventKey(evt) # Throws

KeysOf(m) == [i \in 1..Len(m) |-> m[i].key]

\* C6: snapshot() never contains two entries with the same logical key.
C6_SnapshotNoDuplicateKeys ==
    \A i, j \in 1..Len(snapshot) :
        i # j => eventKey(snapshot[i]) # eventKey(snapshot[j])

\* The feed holds two entries of one key, and snapshot() has dropped one.
C6_Witness ==
    /\ \E i, j \in 1..Len(feedRef) :
          i # j /\ eventKey(feedRef[i]) = eventKey(feedRef[j])
    /\ Len(snapshot) < Len(feedRef)
    /\ Len(snapshot) >= 2

\* C7: pushing a valid event whose key is in the identity index leaves the feed
\* as it is; only the index entry of that key is overwritten.
C7_KnownKeyKeepsFeed ==
    [][(IsPush /\ HasKey(lastPush'.evt)
               /\ LruHas(indexRef, eventKey(lastPush'.evt))) =>
          /\ feedRef' = feedRef
          /\ KeysOf(indexRef') = KeysOf(indexRef)
          /\ \A i \in 1..Len(indexRef) :
                indexRef'[i].value =
                    IF indexRef[i].key = eventKey(lastPush'.evt)
                    THEN lastPush'.evt ELSE indexRef[i].value
    ]_vars

\* The second telemetry event of a 250 ms window was pushed after the first:
\* the feed holds the first, the index the second.
C7_Witness ==
    /\ lastPush # Null
    /\ lastPush.evt = EvT2
    /\ lastPush.known
    /\ \E i \in 1..Len(feedRef) : feedRef[i] = EvT1
    /\ \A i \in 1..Len(feedRef) : feedRef[i] # EvT2
    /\ \E i \in 1..Len(indexRef) : indexRef[i].value = EvT2

\* C8: pushing a valid event whose key is not in the identity index inserts the
\* key at the end of the index, dropping the oldest key when the size would
\* exceed capIndex, and appends the event to the feed, dropping entries from
\* the front when the length would exceed capFeed; the feed never holds more
\* than capFeed entries and the index never more than capIndex keys.
C8_NewKeyInserted ==
    /\ [][(IsPush /\ HasKey(lastPush'.evt)
                  /\ ~LruHas(indexRef, eventKey(lastPush'.evt))) =>
             LET entry == [key |-> eventKey(lastPush'.evt), value |-> lastPush'.evt]
             IN  /\ indexRef' = IF Len(indexRef) + 1 > capIndex
                                THEN Tail(indexRef) \o <<entry>>
                                ELSE indexRef \o <<entry>>
                 /\ feedRef' = IF Len(feedRef) + 1 > capFeed
                               THEN Tail(feedRef) \o <<lastPush'.evt>>
                               ELSE feedRef \o <<lastPush'.evt>>
       ]_vars
    /\ [](Len(feedRef) <= capFeed /\ Len(indexRef) <= capIndex)

\* The last push had a new key and found the feed and the index full: both
\* dropped their oldest entry.
C8_Witness ==
    /\ lastPush # Null
    /\ HasKey(lastPush.evt)
    /\ ~lastPush.known
    /\ lastPush.feedLen = capFeed
    /\ lastPush.indexLen = capIndex
    /\ capFeed >= 2
    /\ capIndex >= 2
    /\ feedRef[Len(feedRef)] = lastPush.evt
    /\ indexRef[Len(indexRef)].value = lastPush.evt

----------------------------------------------------------------------------
(* Rejected records *)

\* C11: a record that is no object, or that has no non-empty string type while
\* the endpoint supplies no fallback type, is rejected: it is not counted in
\* the accepted count, changes none of the three collections and is not
\* broadcast; a null body yields 0 accepted and leaves telemetry as it is.
C11_RejectedRecords ==
    [][IsRequest =>
        LET req == lastBatch'
            arr == IF req.body.k = "array" THEN req.body.items ELSE <<req.body>>
            Rejected(raw) ==
                \/ raw.k # "object"
                \/ ~HasOwnType(raw) /\ req.fallbackType.k = "undefined"
            rejected == SelectSeq(arr, Rejected)
        IN  /\ accepted' <= Len(arr) - Len(rejected)
            /\ Len(hist'.events) - Len(hist.events) <= Len(arr) - Len(rejected)
            /\ \A c \in Sockets :
                  Len(inbox'[c]) - Len(inbox[c]) <= Len(arr) - Len(rejected)
            /\ Len(rejected) = Len(arr) =>
                  /\ accepted' = 0
                  /\ events' = events
                  /\ telemetry' = telemetry
                  /\ detections' = detections
                  /\ inbox' = inbox
            /\ req.body = Null => (accepted' = 0 /\ telemetry' = telemetry)
    ]_vars

\* A batch of records without a type was posted to /api/events, which has no
\* fallback type, while a socket was open and events had been stored before.
C11_Witness ==
    /\ lastBatch # Null
    /\ lastBatch.body.k = "array"
    /\ Len(lastBatch.body.items) >= 2
    /\ \A i \in 1..Len(lastBatch.body.items) : lastBatch.body.items[i] = RawBare
    /\ lastBatch.fallbackType = Undef
    /\ accepted = 0
    /\ readyState["dash"] = "OPEN"
    /\ Len(hist.events) >= 1
    /\ Len(inbox["dash"]) = 2
    /\ inbox["dash"][2].kind = "event"

----------------------------------------------------------------------------
(* backend.js: the list queries *)

DefaultListLimit == 200

IsDigit(ch) == \E i \in 1..Len(Digits) : Digits[i] = ch

DigitVal(ch) == (CHOOSE i \in 1..Len(Digits) : Digits[i] = ch) - 1

\* The longest prefix of s made of digits.
RECURSIVE DigitsPrefix(_)
DigitsPrefix(s) ==
    IF s # <<>> /\ IsDigit(Head(s)) THEN <<Head(s)>> \o DigitsPrefix(Tail(s))
    ELSE <<>>

\* The number a sequence of digits denotes.
RECURSIVE StrToNat(_)
StrToNat(d) ==
    IF d = <<>> THEN 0
    ELSE StrToNat(SubSeq(d, 1, Len(d) - 1)) * 10 + DigitVal(d[Len(d)])

\* Number.parseInt(value, 10) of a query parameter: undefined when it is absent.
ParseInt(v) ==
    IF v.k # "string" THEN NaN
    ELSE LET t == TrimStart(v.s)
             signed == t # <<>> /\ Head(t) \in {"-", "+"}
             d == DigitsPrefix(IF signed THEN Tail(t) ELSE t)
         IN  IF d = <<>> THEN NaN
             ELSE NumV(IF signed /\ Head(t) = "-" THEN -StrToNat(d) ELSE StrToNat(d))

Max(a, b) == IF a > b THEN a ELSE b

\* effectiveLimit of the three GET handlers.
effectiveLimit(limit, max, default) ==
    IF IsFinite(limit) THEN Min(Max(limit.n, 1), max) ELSE default

\* Mutant: the limit is applied before the since filter.
queryEventsLimitFirst(list, limitQ, sinceQ) ==
    LET since == ParseInt(sinceQ)
        Newer(evt) == toTimestamp(evt.ts, Now).n > since.n
        cut == SliceLast(list, effectiveLimit(ParseInt(limitQ), config.maxEvents,
                                              config.defaultEventLimit))
    IN  IF IsFinite(since) THEN SelectSeq(cut, Newer) ELSE cut

\* GET /api/events?limit=&since= on the events collection.
queryEvents(list, limitQ, sinceQ) ==
    LET since == ParseInt(sinceQ)
        Newer(evt) == toTimestamp(evt.ts, Now).n > since.n
        filtered == IF IsFinite(since) THEN SelectSeq(list, Newer) ELSE list
    IN  SliceLast(filtered, effectiveLimit(ParseInt(limitQ), config.maxEvents,
                                           config.defaultEventLimit))

\* GET /api/telemetry?limit=
queryTelemetry(list, limitQ) ==
    SliceLast(list, effectiveLimit(ParseInt(limitQ), config.maxTelemetry,
                                   Min(DefaultListLimit, config.maxTelemetry)))

\* GET /api/detections?limit=
queryDetections(list, limitQ) ==
    SliceLast(list, effectiveLimit(ParseInt(limitQ), config.maxDetections,
                                   Min(DefaultListLimit, config.maxDetections)))

\* The query parameters the handlers are called with.
QueryAbsent == Undef
LimitQueries ==
    {QueryAbsent, StrV(<<"0">>), StrV(<<"1">>), StrV(<<"2">>), StrV(<<"9">>),
     StrV(<<"-", "1">>), StrV(<<" ", "2", "x">>), StrV(<<"x">>)}
SinceQueries == {QueryAbsent, StrV(<<"0">>), StrV(<<"1">>), StrV(<<"2">>)}

\* The limits among them that are numbers, with the number.
GivenLimits ==
    {<<StrV(<<"0">>), 0>>, <<StrV(<<"1">>), 1>>, <<StrV(<<"2">>), 2>>,
     <<StrV(<<"9">>), 9>>, <<StrV(<<"-", "1">>), -1>>, <<StrV(<<" ", "2", "x">>), 2>>}
GivenSinces ==
    {<<StrV(<<"0">>), 0>>, <<StrV(<<"1">>), 1>>, <<StrV(<<"2">>), 2>>}

\* C12: for a caller-supplied limit L a list query returns the last
\* min(max(L, 1), capacity) entries of its collection in storage order (all of
\* them when there are fewer), never more than the capacity; the events query
\* with a since value keeps the events with ts > since and applies the limit
\* to what is kept.
C12_ListQueries ==
    \A q \in GivenLimits :
        LET L == q[2]
            Tail1(list, cap) == LastN(list, Min(IF L < 1 THEN 1 ELSE L, cap))
        IN  /\ queryEvents(events, q[1], QueryAbsent) = Tail1(events, config.maxEvents)
            /\ queryTelemetry(telemetry, q[1]) = Tail1(telemetry, config.maxTelemetry)
            /\ queryDetections(detections, q[1])
                    = Tail1(detections, config.maxDetections)
            /\ Len(queryEvents(events, q[1], QueryAbsent)) <= config.maxEvents
            /\ Len(queryTelemetry(telemetry, q[1])) <= config.maxTelemetry
            /\ Len(queryDetections(detections, q[1])) <= config.maxDetections
            /\ \A s \in GivenSinces :
                  LET After(evt) == evt.ts.n > s[2]
                  IN  queryEvents(events, q[1], s[1])
                          = Tail1(SelectSeq(events, After), config.maxEvents)

\* events holds an event that is not newer than since between two that are, so
\* that the filtered sequence is no tail of the collection, and a limit of 1
\* returns the last of the two; a limit above the capacity returns everything.
C12_Witness ==
    /\ Len(events) = 3
    /\ events[1].ts.n = 2
    /\ events[2].ts.n = 1
    /\ events[3].ts.n = 2
    /\ queryEvents(events, StrV(<<"1">>), StrV(<<"1">>)) = <<events[3]>>
    /\ queryEvents(events, StrV(<<"2">>), StrV(<<"1">>)) = <<events[1], events[3]>>
    /\ queryEvents(events, StrV(<<"9">>), QueryAbsent) = events
    /\ Len(telemetry) = 1
    /\ queryTelemetry(telemetry, StrV(<<"0">>)) = telemetry

----------------------------------------------------------------------------
(* backend.js: ingestMany and ingest, statement by statement *)

\* Mutant: ingest broadcasts the event before appending it.
ingestOrderBroadcastFirst == <<"broadcastEvent", "pushEvents", "route">>

\* The statements of ingest, in program order.
ingestOrder == <<"pushEvents", "route", "broadcastEvent">>

\* A POST handler calls ingestMany(req.body, fallbackType). The handler is
\* synchronous: no other callback runs until it has returned.
StepCall(body, fallbackType) ==
    /\ pc = "idle"
    /\ Len(hist.events) + Len(BatchOf(body)) <= MaxIngest
    /\ pc' = "for"
    /\ frame' = [arr |-> BatchOf(body), i |-> 1, fallbackType |-> fallbackType,
                 now |-> Now, accepted |-> 0, evt |-> Null, step |-> 0]
    /\ UNCHANGED <<config, events, telemetry, detections, wss, wssClients,
                   readyState, inbox, nextId, accepted, hist, lastBatch, dashPos,
                   dispatched>>
    /\ UNCHANGED bufferVars
    /\ UNCHANGED appVars
    /\ UNCHANGED analyticsVars

\* for (const raw of arr) { const evt = normaliseEvent(raw, fallbackType); ...
StepNormalise ==
    /\ pc = "for"
    /\ frame.i <= Len(frame.arr)
    /\ LET raw == frame.arr[frame.i]
           evt == normaliseEvent(raw, frame.fallbackType, nextId, frame.now)
       IN  /\ nextId' = IF evt # Null /\ GeneratesId(raw) THEN nextId + 1 ELSE nextId
           /\ IF Truthy(evt)
              THEN /\ pc' = "ingest"
                   /\ frame' = [frame EXCEPT !.evt = evt, !.step = 1]
              ELSE /\ pc' = "for"
                   /\ frame' = [frame EXCEPT !.i = frame.i + 1]
    /\ UNCHANGED <<config, events, telemetry, detections, wss, wssClients,
                   readyState, inbox, accepted, hist, lastBatch, dashPos,
                   dispatched>>
    /\ UNCHANGED bufferVars
    /\ UNCHANGED appVars
    /\ UNCHANGED analyticsVars

\* The locals after a statement of ingest: the next statement, or back to the
\* loop with accepted += 1.
AfterStatement ==
    IF frame.step < Len(ingestOrder)
    THEN /\ pc' = "ingest"
         /\ frame' = [frame EXCEPT !.step = frame.step + 1]
    ELSE /\ pc' = "for"
         /\ frame' = [frame EXCEPT !.i = frame.i + 1, !.evt = Null, !.step = 0,
                                   !.accepted = frame.accepted + 1]

\* pushBounded(state.events, event, config.maxEvents)
StepPushEvents ==
    /\ pc = "ingest"
    /\ ingestOrder[frame.step] = "pushEvents"
    /\ events' = pushBounded(events, frame.evt, config.maxEvents)
    /\ hist' = [hist EXCEPT !.events = Append(hist.events, frame.evt)]
    /\ AfterStatement
    /\ UNCHANGED <<config, telemetry, detections, wss, wssClients, readyState,
                   inbox, nextId, accepted, lastBatch, dashPos, dispatched>>
    /\ UNCHANGED bufferVars
    /\ UNCHANGED appVars
    /\ UNCHANGED analyticsVars

\* if (event.type.startsWith('telemetry')) ... else if (... 'detection') ...
StepRoute ==
    /\ pc = "ingest"
    /\ ingestOrder[frame.step] = "route"
    /\ LET isTel == StartsWith(frame.evt.type.s, sTelemetry)
           isDet == ~isTel /\ StartsWith(frame.evt.type.s, sDetection)
       IN  /\ telemetry' = IF isTel
                           THEN pushBounded(telemetry, frame.evt, config.maxTelemetry)
                           ELSE telemetry
           /\ detections' = IF isDet
                            THEN pushBounded(detections, frame.evt,
                                             config.maxDetections)
                            ELSE detections
           /\ hist' = [hist EXCEPT
                         !.telemetry = IF isTel THEN Append(@, frame.evt) ELSE @,
                         !.detections = IF isDet THEN Append(@, frame.evt) ELSE @]
    /\ AfterStatement
    /\ UNCHANGED <<config, events, wss, wssClients, readyState, inbox, nextId,
                   accepted, lastBatch, dashPos, dispatched>>
    /\ UNCHANGED bufferVars
    /\ UNCHANGED appVars
    /\ UNCHANGED analyticsVars

\* broadcastEvent(event)
StepBroadcast ==
    /\ pc = "ingest"
    /\ ingestOrder[frame.step] = "broadcastEvent"
    /\ inbox' = broadcastEvent(inbox, frame.evt)
    /\ AfterStatement
    /\ UNCHANGED <<config, events, telemetry, detections, wss, wssClients,
                   readyState, nextId, accepted, hist, lastBatch, dashPos,
                   dispatched>>
    /\ UNCHANGED bufferVars
    /\ UNCHANGED appVars
    /\ UNCHANGED analyticsVars

\* return accepted
StepReturn ==
    /\ pc = "for"
    /\ frame.i > Len(frame.arr)
    /\ accepted' = frame.accepted
    /\ pc' = "idle"
    /\ frame' = Null
    /\ UNCHANGED <<config, events, telemetry, detections, wss, wssClients,
                   readyState, inbox, nextId, hist, lastBatch, dashPos, dispatched>>
    /\ UNCHANGED bufferVars
    /\ UNCHANGED appVars
    /\ UNCHANGED analyticsVars

\* The other callbacks of the event loop run between handlers only.
StepAttach == pc = "idle" /\ AttachWebSocketServer

StepConnect(c) == pc = "idle" /\ Connect(c)

StepPostTelemetry == \E body \in WsBodies : StepCall(body, StrV(sTelemetryUpdate))

StepPostDetections == \E body \in WsBodies : StepCall(body, StrV(sDetectionNew))

StepPostEvents == \E body \in WsBodies : StepCall(body, Undef)

NextStep ==
    \/ StepAttach
    \/ \E c \in Sockets : StepConnect(c)
    \/ StepPostTelemetry
    \/ StepPostDetections
    \/ StepPostEvents
    \/ StepNormalise
    \/ StepPushEvents
    \/ StepRoute
    \/ StepBroadcast
    \/ StepReturn

SpecStep == InitWs /\ [][NextStep]_vars

\* The live events a socket has been sent, in the order they were sent.
LiveOf(c) ==
    LET IsEvent(msg) == msg.kind = "event"
    IN  SelectSeq(inbox[c], IsEvent)

\* C13: events are ingested one at a time to completion. The events sent to a
\* socket that is open are, in order, the events appended since it connected,
\* all of them but at most the one event that is appended and not yet fanned
\* out; no element of a batch is taken up while one is unfinished; and when an
\* event is broadcast it is the newest entry of the events collection.
C13_OneAtATime ==
    /\ [](\A c \in Sockets :
            readyState[c] = "OPEN" =>
                \E a \in 1..(Len(hist.events) + 1) :
                \E b \in {Len(hist.events) - 1, Len(hist.events)} :
                    /\ a <= b + 1
                    /\ b = Len(hist.events) - 1 =>
                           /\ pc = "ingest"
                           /\ hist.events[Len(hist.events)] = frame.evt
                    /\ LiveOf(c) = [j \in 1..(b - a + 1) |->
                                       EventMessage(hist.events[a + j - 1])])
    /\ [][inbox' # inbox /\ pc = "ingest" =>
              /\ events # <<>>
              /\ events[Len(events)] = frame.evt
              /\ hist.events[Len(hist.events)] = frame.evt
              /\ events' = events]_vars

\* The second element of a batch is appended and about to be broadcast, and
\* the dashboard's socket, open since before the batch, has been sent the
\* first element and nothing else.
C13_Witness ==
    /\ pc = "ingest"
    /\ Len(frame.arr) = 2
    /\ frame.i = 2
    /\ ingestOrder[frame.step] = "broadcastEvent"
    /\ readyState["dash"] = "OPEN"
    /\ Len(hist.events) = 2
    /\ events[Len(events)] = frame.evt
    /\ LiveOf("dash") = <<EventMessage(hist.events[1])>>

----------------------------------------------------------------------------
(* usv_dash.jsx: clustering of detections *)

EarthRadiusMeters == 6371000

DefaultThresholdMeters == 150

Infinity == [k |-> "Infinity"]

NegInfinity == [k |-> "-Infinity"]

safePayload(payload) == IF Truthy(payload) THEN payload ELSE [k |-> "object"]

\* Math.sqrt, to the integer below, by bisection between lo and hi.
RECURSIVE SqrtBetween(_, _, _)
SqrtBetween(n, lo, hi) ==
    IF lo >= hi THEN lo
    ELSE LET mid == (lo + hi + 1) \div 2
         IN  IF mid * mid <= n THEN SqrtBetween(n, mid, hi)
             ELSE SqrtBetween(n, lo, mid - 1)

Abs(n) == IF n < 0 THEN -n ELSE n

\* Math.sqrt(a * a + b * b), to the integer below: it lies between the longer
\* of |a| and |b| and their sum.
SqrtOfSquares(a, b) == SqrtBetween(a * a + b * b, Max(Abs(a), Abs(b)), Abs(a) + Abs(b))

\* R * pi / 180, the metres of one degree of arc (pi as 355/113).
MetresPerDegree == ((EarthRadiusMeters \div 180) * 355) \div 113

\* haversineDistanceMeters, in whole metres. Coordinates are held in
\* thousandths of a degree and lie within a few of them of (0, 0); there the
\* great-circle distance is the planar one to well under a metre.
haversineDistanceMeters(lat1, lon1, lat2, lon2) ==
    IF ~IsFinite(lat1) \/ ~IsFinite(lon1) \/ ~IsFinite(lat2) \/ ~IsFinite(lon2)
    THEN Infinity
    ELSE LET dLat == lat2.n - lat1.n
             dLon == lon2.n - lon1.n
         IN  NumV((SqrtOfSquares(dLat * 1000, dLon * 1000) * MetresPerDegree)
                      \div 1000000)

\* dist <= thresholdMeters
WithinThreshold(dist, thresholdMeters) ==
    dist.k = "number" /\ dist.n <= thresholdMeters

\* The properties every object inherits from Object.prototype; constructor
\* stands for all its methods.
sConstructor == <<"c", "o", "n", "s", "t", "r", "u", "c", "t", "o", "r">>
sUnknown == <<"U", "N", "K", "N", "O", "W", "N">>
ObjectPrototype == [key \in {sConstructor} |-> [k |-> "function", name |-> "Object"]]

\* obj[key] of an object literal: its own property, else the inherited one.
GetProp(obj, key) ==
    IF key \in DOMAIN obj THEN obj[key]
    ELSE IF key \in DOMAIN ObjectPrototype THEN ObjectPrototype[key]
    ELSE Undef

\* (value || 0) + 1: a sum of numbers, or the concatenation of the text of a
\* value that is no number with "1".
OrZeroPlusOne(v) ==
    IF ~Truthy(v) THEN NumV(1)
    ELSE IF v.k = "number" THEN NumV(v.n + 1)
    ELSE IF v.k = "string" THEN StrV(v.s \o <<"1">>)
    ELSE StrV(<<"function Object() { [native code] }", "1">>)

\* A ratio of two integers: the quotient the code computes in floating point.
Ratio(a, b) == [k |-> "ratio", num |-> a, den |-> b]

\* The value of det.ts as summarizeDetectionGroup reads it.
tsVal(det) ==
    IF Get(det, "ts").k = "number" THEN det.ts ELSE DateParse(Get(det, "ts"))

\* The loop of summarizeDetectionGroup from member i on.
RECURSIVE summarizeLoop(_, _, _)
summarizeLoop(members, i, acc) ==
    IF i > Len(members) THEN acc
    ELSE LET det == members[i]
             payload == safePayload(Get(det, "payload"))
             lat == Get(payload, "lat")
             lon == Get(payload, "lon")
             category == Get(payload, "category")
             cat == IF Truthy(category) THEN ToStr(category) ELSE sUnknown
             count == OrZeroPlusOne(GetProp(acc.categories, cat))
             newer == /\ IsFinite(tsVal(det))
                      /\ \/ acc.latestTsVal = NegInfinity
                         \/ tsVal(det).n > acc.latestTsVal.n
         IN  summarizeLoop(members, i + 1,
                 [latSum |-> IF IsFinite(lat) THEN acc.latSum + lat.n ELSE acc.latSum,
                  lonSum |-> IF IsFinite(lon) THEN acc.lonSum + lon.n ELSE acc.lonSum,
                  categories |->
                      [key \in DOMAIN acc.categories \cup {cat} |->
                          IF key = cat THEN count ELSE acc.categories[key]],
                  latestTsVal |-> IF newer THEN tsVal(det) ELSE acc.latestTsVal,
                  primary |-> IF newer THEN det ELSE acc.primary])

summarizeDetectionGroup(members, now) ==
    IF Len(members) = 0 THEN Null
    ELSE LET acc == summarizeLoop(members, 1,
                        [latSum |-> 0, lonSum |-> 0, categories |-> <<>>,
                         latestTsVal |-> NegInfinity, primary |-> members[1]])
         IN  [k |-> "object",
              count |-> Len(members),
              lat |-> Ratio(acc.latSum, Len(members)),
              lon |-> Ratio(acc.lonSum, Len(members)),
              categories |-> acc.categories,
              latestTs |-> IF IsFinite(acc.latestTsVal) THEN acc.latestTsVal
                           ELSE NumV(now),
              primary |-> acc.primary,
              members |-> members]

\* Number.isFinite(payload.lat) && Number.isFinite(payload.lon)
Locatable(det) ==
    LET payload == safePayload(Get(det, "payload"))
    IN  IsFinite(Get(payload, "lat")) /\ IsFinite(Get(payload, "lon"))

Range(s) == {s[i] : i \in 1..Len(s)}

\* The while loop of groupOverlappingDetections: the traversal from the
\* indices in queue; returns used and the members found.
RECURSIVE traverse(_, _, _, _, _, _)

\* Mutant: only the seed's neighbours join it.
traverseSeedOnly(safe, thresholdMeters, queue, enqueued, used, members) ==
    IF queue = <<>> THEN [used |-> used, members |-> members]
    ELSE LET idx == queue[Len(queue)]
             rest == SubSeq(queue, 1, Len(queue) - 1)
             cp == safePayload(Get(safe[idx], "payload"))
             Near(j) ==
                 /\ members = <<>>
                 /\ j \notin used \cup {idx}
                 /\ j \notin enqueued
                 /\ Locatable(safe[j])
                 /\ WithinThreshold(
                        haversineDistanceMeters(
                            cp.lat, cp.lon,
                            safePayload(Get(safe[j], "payload")).lat,
                            safePayload(Get(safe[j], "payload")).lon),
                        thresholdMeters)
             found == SelectSeq([j \in 1..Len(safe) |-> j], Near)
         IN  IF idx \in used
             THEN traverse(safe, thresholdMeters, rest, enqueued, used, members)
             ELSE IF ~Locatable(safe[idx])
             THEN traverse(safe, thresholdMeters, rest, enqueued, used \cup {idx},
                           members)
             ELSE traverse(safe, thresholdMeters, rest \o found,
                           enqueued \cup Range(found), used \cup {idx},
                           Append(members, safe[idx]))

traverse(safe, thresholdMeters, queue, enqueued, used, members) ==
    IF queue = <<>> THEN [used |-> used, members |-> members]
    ELSE LET idx == queue[Len(queue)]
             rest == SubSeq(queue, 1, Len(queue) - 1)
             cp == safePayload(Get(safe[idx], "payload"))
             Near(j) ==
                 /\ j \notin used \cup {idx}
                 /\ j \notin enqueued
                 /\ Locatable(safe[j])
                 /\ WithinThreshold(
                        haversineDistanceMeters(
                            cp.lat, cp.lon,
                            safePayload(Get(safe[j], "payload")).lat,
                            safePayload(Get(safe[j], "payload")).lon),
                        thresholdMeters)
             found == SelectSeq([j \in 1..Len(safe) |-> j], Near)
         IN  IF idx \in used
             THEN traverse(safe, thresholdMeters, rest, enqueued, used, members)
             ELSE IF ~Locatable(safe[idx])
             THEN traverse(safe, thresholdMeters, rest, enqueued, used \cup {idx},
                           members)
             ELSE traverse(safe, thresholdMeters, rest \o found,
                           enqueued \cup Range(found), used \cup {idx},
                           Append(members, safe[idx]))

\* The for loop of groupOverlappingDetections from seed i on.
RECURSIVE groupLoop(_, _, _, _, _, _)
groupLoop(safe, thresholdMeters, i, used, groups, now) ==
    IF i > Len(safe) THEN groups
    ELSE IF i \in used \/ ~Locatable(safe[i])
    THEN groupLoop(safe, thresholdMeters, i + 1, used, groups, now)
    ELSE LET t == traverse(safe, thresholdMeters, <<i>>, {i}, used, <<>>)
             summary == summarizeDetectionGroup(t.members, now)
         IN  groupLoop(safe, thresholdMeters, i + 1, t.used,
                       IF Len(t.members) > 1 /\ Truthy(summary)
                       THEN Append(groups, summary) ELSE groups,
                       now)

\* Mutant: of two groups of equal count the later one is put first.
InsertByCountBeforeEquals(sorted, g) ==
    LET Before(x) == x.count > g.count
        After(x) == ~Before(x)
    IN  SelectSeq(sorted, Before) \o <<g>> \o SelectSeq(sorted, After)

\* Array.prototype.sort((a, b) => b.count - a.count) is stable: g, the last
\* of the groups so far, goes behind every group of at least its count.
InsertByCount(sorted, g) ==
    LET Before(x) == x.count >= g.count
        After(x) == ~Before(x)
    IN  SelectSeq(sorted, Before) \o <<g>> \o SelectSeq(sorted, After)

RECURSIVE sortByCountDesc(_)
sortByCountDesc(groups) ==
    IF groups = <<>> THEN <<>>
    ELSE InsertByCount(sortByCountDesc(SubSeq(groups, 1, Len(groups) - 1)),
                       groups[Len(groups)])

\* An unlocatable detection placed at (0, 0).
AtOrigin(det) ==
    IF Locatable(det) THEN det
    ELSE [det EXCEPT !.payload =
             [f \in DOMAIN det.payload \cup {"lat", "lon"} |->
                 IF f \in {"lat", "lon"} THEN NumV(0) ELSE det.payload[f]]]

\* Mutant: a coordinate that is no finite number is read as 0.
groupOverlappingDetectionsAtOrigin(dets, thresholdMeters, now) ==
    sortByCountDesc(groupLoop([i \in 1..Len(dets) |-> AtOrigin(dets[i])],
                              thresholdMeters, 1, {}, <<>>, now))

groupOverlappingDetections(dets, thresholdMeters, now) ==
    sortByCountDesc(groupLoop(dets, thresholdMeters, 1, {}, <<>>, now))

----------------------------------------------------------------------------
(* The detection snapshots the analyzer is run on *)

MaxDet == 5

sX == <<"x">>

\* Payloads and timestamps of detections: three on a line at steps of about
\* 111 m, so that the first and the third are out of each other's reach, and
\* two that cannot be located.
ShapeA == [ts |-> StrV(sX), payload |-> [k |-> "object", lat |-> NumV(0), lon |-> NumV(0)]]
ShapeB ==
    [ts |-> NumV(200),
     payload |-> [k |-> "object", lat |-> NumV(1), lon |-> NumV(0),
                  category |-> StrV(sA)]]
ShapeC ==
    [ts |-> NumV(100),
     payload |-> [k |-> "object", lat |-> NumV(2), lon |-> NumV(0),
                  category |-> StrV(sConstructor)]]
ShapeNoLat ==
    [ts |-> NumV(300), payload |-> [k |-> "object", lon |-> NumV(0),
                                    category |-> StrV(sA)]]
ShapeNaNLon ==
    [ts |-> NumV(300), payload |-> [k |-> "object", lat |-> NumV(1), lon |-> NaN]]

Shapes == {ShapeA, ShapeB, ShapeC, ShapeNoLat, ShapeNaNLon}

\* The i-th detection of a snapshot: a validated detection event.
DetectionOf(i, shape) ==
    [k |-> "object", id |-> StrV(NatToStr(i)), ts |-> shape.ts,
     type |-> StrV(sDetectionNew), payload |-> shape.payload]

Snapshots ==
    {[i \in 1..Len(shapes) |-> DetectionOf(i, shapes[i])] :
        shapes \in SeqsUpTo(Shapes, MaxDet)}

\* The reading of Date.now() during the analysis.
AnalysisClock == 1000

InitCluster ==
    /\ InitBackend({c \in WsConfigs : c.defaultEventLimit = 1})
    /\ InitBuffer
    /\ InitApp
    /\ analysisIn \in Snapshots
    /\ analysisOut = Null

\* analyzeData: overlaps = groupOverlappingDetections(safeDetections)
Analyze ==
    /\ analysisOut = Null
    /\ analysisOut' = [k |-> "overlaps",
                       groups |-> groupOverlappingDetections(
                                      analysisIn, DefaultThresholdMeters,
                                      AnalysisClock)]
    /\ UNCHANGED analysisIn
    /\ UNCHANGED backendVars
    /\ UNCHANGED bufferVars
    /\ UNCHANGED appVars

NextCluster == Analyze

SpecCluster == InitCluster /\ [][NextCluster]_vars

\* The position in the snapshot of a member of a group.
IndexOf(det) == CHOOSE i \in 1..Len(analysisIn) : analysisIn[i] = det

MemberIndices(g) == {IndexOf(g.members[m]) : m \in 1..Len(g.members)}

\* The threshold graph of a snapshot: its nodes are the positions of the
\* locatable detections, its edges join two of them at distance <= threshold.
Nodes(snap) == {i \in 1..Len(snap) : Locatable(snap[i])}

Edge(snap, i, j) ==
    /\ i # j
    /\ WithinThreshold(
           haversineDistanceMeters(snap[i].payload.lat, snap[i].payload.lon,
                                   snap[j].payload.lat, snap[j].payload.lon),
           DefaultThresholdMeters)

RECURSIVE Reachable(_, _)
Reachable(snap, S) ==
    LET T == S \cup {j \in Nodes(snap) : \E i \in S : Edge(snap, i, j)}
    IN  IF T = S THEN S ELSE Reachable(snap, T)

Components(snap) == {Reachable(snap, {i}) : i \in Nodes(snap)}

Analyzed == analysisOut # Null /\ analysisOut.k = "overlaps"

\* C14: the groups returned are exactly the connected components with at
\* least 2 members of the threshold graph of the locatable detections: each
\* component once, each member once, no two groups share a member, no group
\* has a single member, and A, B, C with A-B and B-C within the threshold but
\* A-C not are together in one group.
C14_ConnectedComponents ==
    Analyzed =>
        LET groups == analysisOut.groups
            G == 1..Len(groups)
        IN  /\ {MemberIndices(groups[g]) : g \in G}
                   = {C \in Components(analysisIn) : Cardinality(C) >= 2}
            /\ \A g \in G :
                  /\ \A m \in 1..Len(groups[g].members) :
                        \E i \in 1..Len(analysisIn) : analysisIn[i] = groups[g].members[m]
                  /\ Cardinality(MemberIndices(groups[g])) = Len(groups[g].members)
                  /\ Len(groups[g].members) >= 2
            /\ \A g, h \in G :
                  g # h => MemberIndices(groups[g]) \cap MemberIndices(groups[h]) = {}
            /\ \A a, b, c \in Nodes(analysisIn) :
                  /\ Edge(analysisIn, a, b)
                  /\ Edge(analysisIn, b, c)
                  /\ a # c
                  /\ ~Edge(analysisIn, a, c)
                  => \E g \in G : {a, b, c} \subseteq MemberIndices(groups[g])

\* A, B and C in a chain, given as C, A, B: one group of exactly these three.
C14_Witness ==
    /\ Analyzed
    /\ Len(analysisIn) = 3
    /\ analysisIn[1].payload = ShapeC.payload
    /\ analysisIn[2].payload = ShapeA.payload
    /\ analysisIn[3].payload = ShapeB.payload
    /\ ~Edge(analysisIn, 1, 2)
    /\ Len(analysisOut.groups) = 1
    /\ analysisOut.groups[1].count = 3
    /\ MemberIndices(analysisOut.groups[1]) = {1, 2, 3}


\* The snapshot without its unlocatable detections.
LocatableOnly(snap) == SelectSeq(snap, Locatable)

\* C15: a detection whose lat or lon is missing or no finite number is a
\* member of no group, wherever it stands in the snapshot, and the groups are
\* those of the snapshot with every such detection removed.
C15_UnlocatableExcluded ==
    Analyzed =>
        /\ \A g \in 1..Len(analysisOut.groups) :
              \A m \in 1..Len(analysisOut.groups[g].members) :
                  Locatable(analysisOut.groups[g].members[m])
        /\ analysisOut.groups
               = groupOverlappingDetections(LocatableOnly(analysisIn),
                                            DefaultThresholdMeters, AnalysisClock)

\* Unlocatable detections stand first, between and after two detections
\* about 111 m apart, one of them at the place a missing latitude would read
\* as; the two are grouped and nothing else is.
C15_Witness ==
    /\ Analyzed
    /\ Len(analysisIn) = 5
    /\ ~Locatable(analysisIn[1])
    /\ analysisIn[2].payload = ShapeB.payload
    /\ analysisIn[3].payload = ShapeNaNLon.payload
    /\ analysisIn[4].payload = ShapeA.payload
    /\ analysisIn[5].payload = ShapeNoLat.payload
    /\ Len(analysisOut.groups) = 1
    /\ MemberIndices(analysisOut.groups[1]) = {2, 4}

\* The seed of a group: the first of its members in the snapshot.
SeedOf(g) == CHOOSE i \in MemberIndices(g) : \A j \in MemberIndices(g) : i <= j

\* C16: the groups are in descending order of member count, and groups of
\* equal count in the order in which their seeds stand in the snapshot.
C16_SortedByCount ==
    Analyzed =>
        \A g, h \in 1..Len(analysisOut.groups) :
            g < h =>
                /\ analysisOut.groups[g].count >= analysisOut.groups[h].count
                /\ analysisOut.groups[g].count = analysisOut.groups[h].count
                       => SeedOf(analysisOut.groups[g]) < SeedOf(analysisOut.groups[h])

\* A group of two is found before a group of three and returned after it.
C16_Witness ==
    /\ Analyzed
    /\ Len(analysisIn) = 5
    /\ Len(analysisOut.groups) = 2
    /\ MemberIndices(analysisOut.groups[1]) = {3, 4, 5}
    /\ MemberIndices(analysisOut.groups[2]) = {1, 2}

\* The category a member is counted under.
CategoryOf(det) ==
    LET category == Get(safePayload(Get(det, "payload")), "category")
    IN  IF Truthy(category) THEN ToStr(category) ELSE sUnknown

\* C17: in every group count is the number of members; the histogram has, for
\* each category of a member ("UNKNOWN" for a member without one), the number
\* of members of that category, so that its values sum to count; and where a
\* member has a timestamp, primary is the first scanned of the members with
\* the greatest timestamp and latestTs is that timestamp.
C17_ClusterSummary ==
    Analyzed =>
        \A g \in 1..Len(analysisOut.groups) :
            LET group == analysisOut.groups[g]
                M == 1..Len(group.members)
                Timed == {m \in M : IsFinite(tsVal(group.members[m]))}
                Latest(m) ==
                    /\ m \in Timed
                    /\ \A n \in Timed :
                          tsVal(group.members[n]).n <= tsVal(group.members[m]).n
            IN  /\ group.count = Len(group.members)
                /\ DOMAIN group.categories = {CategoryOf(group.members[m]) : m \in M}
                /\ \A key \in DOMAIN group.categories :
                      group.categories[key]
                          = NumV(Cardinality({m \in M :
                                                 CategoryOf(group.members[m]) = key}))
                /\ Timed # {} =>
                      \E m \in M :
                          /\ Latest(m)
                          /\ \A n \in M : Latest(n) => m <= n
                          /\ group.primary = group.members[m]
                          /\ group.latestTs = tsVal(group.members[m])

----------------------------------------------------------------------------
(* The latest event of every drone: latestByDrone, and OffenseDashboard's drones *)

\* t.payload?.drone_id
DroneIdOf(t) ==
    IF Get(t, "payload").k \in {"undefined", "null"} THEN Undef
    ELSE Get(t.payload, "drone_id")

\* Mutant: the comparison is turned round.
JsGreaterAsLess(a, b) == a.k = "number" /\ b.k = "number" /\ a.n < b.n

\* a > b of two timestamps: of numbers; a value that is no number is NaN to
\* the comparison, which is then false.
JsGreater(a, b) == a.k = "number" /\ b.k = "number" /\ a.n > b.n

\* Map.prototype.get on a Map held as its entries in insertion order.
MapGet(m, key) ==
    IF \E i \in 1..Len(m) : m[i].key = key
    THEN m[CHOOSE i \in 1..Len(m) : m[i].key = key].value
    ELSE Undef

\* Map.prototype.set: an entry that exists keeps its place.
MapPut(m, key, value) ==
    IF \E i \in 1..Len(m) : m[i].key = key
    THEN [i \in 1..Len(m) |-> IF m[i].key = key THEN [key |-> key, value |-> value]
                              ELSE m[i]]
    ELSE Append(m, [key |-> key, value |-> value])

\* The for loop of latestByDrone from event i on.
RECURSIVE latestLoop(_, _, _)

\* Mutant: an event replaces the one kept also when its timestamp is equal.
latestLoopLastWins(tel, i, m) ==
    IF i > Len(tel) THEN m
    ELSE LET t == tel[i]
             id == DroneIdOf(t)
             old == MapGet(m, id)
         IN  IF ~Truthy(id) THEN latestLoop(tel, i + 1, m)
             ELSE IF ~Truthy(old) \/ ~JsGreater(Get(old, "ts"), Get(t, "ts"))
             THEN latestLoop(tel, i + 1, MapPut(m, id, t))
             ELSE latestLoop(tel, i + 1, m)

latestLoop(tel, i, m) ==
    IF i > Len(tel) THEN m
    ELSE LET t == tel[i]
             id == DroneIdOf(t)
             old == MapGet(m, id)
         IN  IF ~Truthy(id) THEN latestLoop(tel, i + 1, m)
             ELSE IF ~Truthy(old) \/ JsGreater(Get(t, "ts"), Get(old, "ts"))
             THEN latestLoop(tel, i + 1, MapPut(m, id, t))
             ELSE latestLoop(tel, i + 1, m)

\* The timestamp byTsDesc compares.
TsOf(evt) ==
    IF Get(evt, "ts").k = "number" THEN evt.ts ELSE DateParse(Get(evt, "ts"))

\* A stable sort by descending timestamp: x, the last of the events so far,
\* goes behind every event that is not older.
InsertByTsDesc(sorted, x) ==
    LET Before(y) == ~JsGreater(TsOf(x), TsOf(y))
        After(y) == ~Before(y)
    IN  SelectSeq(sorted, Before) \o <<x>> \o SelectSeq(sorted, After)

RECURSIVE sortByTsDesc(_)
sortByTsDesc(evts) ==
    IF evts = <<>> THEN <<>>
    ELSE InsertByTsDesc(sortByTsDesc(SubSeq(evts, 1, Len(evts) - 1)), evts[Len(evts)])

\* latestByDrone: [...m.values()].sort((a, b) => b.ts - a.ts)
latestByDrone(tel) ==
    LET m == latestLoop(tel, 1, <<>>)
    IN  sortByTsDesc([i \in 1..Len(m) |-> m[i].value])

\* The forEach of the drones memo from event i on: the events of every
\* drone_id, in the order scanned.
RECURSIVE dronesLoop(_, _, _)
dronesLoop(tel, i, map) ==
    IF i > Len(tel) THEN map
    ELSE LET evt == tel[i]
             id == Get(safePayload(Get(evt, "payload")), "drone_id")
             arr == IF Truthy(MapGet(map, id)) THEN MapGet(map, id).items ELSE <<>>
         IN  IF ~Truthy(id) THEN dronesLoop(tel, i + 1, map)
             ELSE dronesLoop(tel, i + 1, MapPut(map, id, ArrayV(Append(arr, evt))))

\* OffenseDashboard's drones: id, latest and previous of every drone.
drones(tel) ==
    LET map == dronesLoop(tel, 1, <<>>)
    IN  [i \in 1..Len(map) |->
            LET ordered == sortByTsDesc(map[i].value.items)
            IN  [id |-> map[i].key,
                 latest |-> ordered[1],
                 previous |-> IF Len(ordered) > 1 THEN ordered[2] ELSE Null,
                 latestPayload |-> safePayload(Get(ordered[1], "payload"))]]

----------------------------------------------------------------------------
(* The telemetry snapshots the fold is run on *)

MaxTel == 4

sD2 == <<"D", "2">>

\* Payloads and timestamps of telemetry events: two drones, an event without
\* a drone_id, one with an empty one and one without a payload.
TelD1At100 == [ts |-> NumV(100), payload |-> [k |-> "object", drone_id |-> StrV(sD1)]]
TelD1At200 == [ts |-> NumV(200), payload |-> [k |-> "object", drone_id |-> StrV(sD1)]]
TelD2At100 == [ts |-> NumV(100), payload |-> [k |-> "object", drone_id |-> StrV(sD2)]]
TelNoDrone == [ts |-> NumV(300), payload |-> [k |-> "object", speed |-> NumV(3)]]
TelEmptyDrone == [ts |-> NumV(300), payload |-> [k |-> "object", drone_id |-> StrV(<<>>)]]

TelShapes == {TelD1At100, TelD1At200, TelD2At100, TelNoDrone, TelEmptyDrone}

\* The i-th event of a snapshot.
TelemetryOf(i, shape) ==
    [k |-> "object", id |-> StrV(NatToStr(i)), ts |-> shape.ts,
     type |-> StrV(sTelemetryUpdate), payload |-> shape.payload]

TelSnapshots ==
    {[i \in 1..Len(shapes) |-> TelemetryOf(i, shapes[i])] :
        shapes \in SeqsUpTo(TelShapes, MaxTel)}

InitFold ==
    /\ InitBackend({c \in WsConfigs : c.defaultEventLimit = 1})
    /\ InitBuffer
    /\ InitApp
    /\ analysisIn \in TelSnapshots
    /\ analysisOut = Null

\* The memos are computed from the telemetry snapshot.
Fold ==
    /\ analysisOut = Null
    /\ analysisOut' = [k |-> "latest",
                       latestByDrone |-> latestByDrone(analysisIn),
                       drones |-> drones(analysisIn)]
    /\ UNCHANGED analysisIn
    /\ UNCHANGED backendVars
    /\ UNCHANGED bufferVars
    /\ UNCHANGED appVars

NextFold == Fold

SpecFold == InitFold /\ [][NextFold]_vars

Folded == analysisOut # Null /\ analysisOut.k = "latest"

\* The drone_ids of a snapshot, and the positions of the events of one.
DroneIds(tel) == {DroneIdOf(tel[i]).s : i \in {j \in 1..Len(tel) : Truthy(DroneIdOf(tel[j]))}}

EventsOf(tel, id) ==
    {i \in 1..Len(tel) : Truthy(DroneIdOf(tel[i])) /\ DroneIdOf(tel[i]).s = id}

\* The position in the snapshot of an event kept.
PositionOf(evt) == CHOOSE i \in 1..Len(analysisIn) : analysisIn[i] = evt

\* The events the two folds keep.
KeptByMap == analysisOut.latestByDrone

KeptByMemo == [i \in 1..Len(analysisOut.drones) |-> analysisOut.drones[i].latest]

\* kept holds exactly one event for every drone_id of the snapshot, an event
\* of the snapshot whose timestamp no event of that drone_id exceeds.
OnePerDrone(kept) ==
    /\ Len(kept) = Cardinality(DroneIds(analysisIn))
    /\ {DroneIdOf(kept[i]) : i \in 1..Len(kept)} = {StrV(id) : id \in DroneIds(analysisIn)}
    /\ \A i \in 1..Len(kept) :
          /\ \E p \in 1..Len(analysisIn) : analysisIn[p] = kept[i]
          /\ \A p \in EventsOf(analysisIn, DroneIdOf(kept[i]).s) :
                analysisIn[p].ts.n <= kept[i].ts.n

\* C18: the fold returns exactly one event for every drone_id of the
\* telemetry snapshot and none for an event without a drone_id, and the event
\* kept for an id has the greatest timestamp of the events of that id.
C18_LatestPerDrone == Folded => OnePerDrone(KeptByMap) /\ OnePerDrone(KeptByMemo)

\* Two drones and an event without drone_id; the older event of D1 is scanned
\* after the newer one, and the newer one is kept.
C18_Witness ==
    /\ Folded
    /\ Len(analysisIn) = 4
    /\ analysisIn[1].payload = TelD1At200.payload /\ analysisIn[1].ts = NumV(200)
    /\ analysisIn[2].payload = TelNoDrone.payload
    /\ analysisIn[3].payload = TelD2At100.payload
    /\ analysisIn[4].payload = TelD1At100.payload /\ analysisIn[4].ts = NumV(100)
    /\ KeptByMap = <<analysisIn[1], analysisIn[3]>>
    /\ KeptByMemo = <<analysisIn[1], analysisIn[3]>>

\* The events of kept's drone that carry its greatest timestamp.
TiedAtLatest(evt) ==
    {p \in EventsOf(analysisIn, DroneIdOf(evt).s) : analysisIn[p].ts = evt.ts}

\* C19 as stated: of the events of a drone_id tied at its greatest timestamp
\* the one scanned last is kept.
C19_TieKeepsLater ==
    Folded =>
        \A i \in 1..Len(KeptByMap) :
            \A p \in TiedAtLatest(KeptByMap[i]) : p <= PositionOf(KeptByMap[i])

\* C19, amended: of the events of a drone_id tied at its greatest timestamp
\* the one scanned first is kept, by latestByDrone and by the drones memo.
C19_TieKeepsEarlier ==
    Folded =>
        /\ \A i \in 1..Len(KeptByMap) :
              \A p \in TiedAtLatest(KeptByMap[i]) : PositionOf(KeptByMap[i]) <= p
        /\ \A i \in 1..Len(KeptByMemo) :
              \A p \in TiedAtLatest(KeptByMemo[i]) : PositionOf(KeptByMemo[i]) <= p

\* D1 has an older event and then two at its greatest timestamp; the first of
\* the two is kept.
C19_Witness ==
    /\ Folded
    /\ Len(analysisIn) = 3
    /\ analysisIn[1].ts = NumV(100)
    /\ analysisIn[2].ts = NumV(200)
    /\ analysisIn[3].ts = NumV(200)
    /\ \A i \in 1..3 : DroneIdOf(analysisIn[i]) = StrV(sD1)
    /\ KeptByMap = <<analysisIn[2]>>
    /\ KeptByMemo = <<analysisIn[2]>>

----------------------------------------------------------------------------
(* usv_dash.jsx: the logical keys of two events *)

\* Events to key, besides those pushed to the buffer: a telemetry event at the
\* first millisecond of a window, one of another drone, one with a date
\* string, one without drone_id, and a detection without detection_id.
KeyTelAt250 == TelEvent(sE, 250)
KeyTelD2 == [TelEvent(sA, 100) EXCEPT !.payload.drone_id = StrV(sD2)]
KeyTelIso == [TelEvent(sC, 100) EXCEPT !.ts = StrV(sIso1)]
KeyTelNoDrone == [TelEvent(sB, 100) EXCEPT !.payload = [k |-> "object", speed |-> NumV(3)]]
KeyDetNoId == [DetEvent(sC, 100) EXCEPT !.payload = [k |-> "object", lat |-> NumV(1)]]

KeyEvents ==
    {EvT1, EvT2, EvT3, KeyTelAt250, KeyTelD2, KeyTelIso, KeyTelNoDrone,
     EvX1, EvX2, KeyDetNoId, EvSys}

InitKey ==
    /\ InitBackend({c \in WsConfigs : c.defaultEventLimit = 1})
    /\ InitBuffer
    /\ InitApp
    /\ analysisIn \in KeyEvents \X KeyEvents
    /\ analysisOut = Null

\* eventKey is applied to the two events.
KeyBoth ==
    /\ analysisOut = Null
    /\ analysisOut' = [k |-> "keys",
                       keys |-> <<eventKey(analysisIn[1]), eventKey(analysisIn[2])>>]
    /\ UNCHANGED analysisIn
    /\ UNCHANGED backendVars
    /\ UNCHANGED bufferVars
    /\ UNCHANGED appVars

NextKey == KeyBoth

SpecKey == InitKey /\ [][NextKey]_vars

Keyed == analysisOut # Null /\ analysisOut.k = "keys"

\* A detection event with a detection_id; a telemetry event with a drone_id.
KeyedAsDetection(evt) ==
    StartsWith(evt.type.s, sDetection) /\ "detection_id" \in DOMAIN evt.payload

KeyedAsTelemetry(evt) ==
    StartsWith(evt.type.s, sTelemetry) /\ "drone_id" \in DOMAIN evt.payload

\* The 250 ms window a timestamp falls in: w with 250 w <= ts < 250 (w + 1).
MillisOf(evt) == IF evt.ts.k = "number" THEN evt.ts.n ELSE DateParse(evt.ts).n

WindowOf(evt) ==
    CHOOSE w \in 0..MillisOf(evt) :
        BucketMs * w <= MillisOf(evt) /\ MillisOf(evt) < BucketMs * (w + 1)

\* C20: the key of a detection event with a detection_id is "det:" and the
\* detection_id, whatever its id and ts; the key of a telemetry event with a
\* drone_id is "tel:", the drone_id, ":" and floor(ts / 250), so that two such
\* events have one key exactly if they have the same drone_id and timestamps
\* in the same 250 ms window; an event with neither field is keyed "evt:" and
\* its id.
C20_EventKey ==
    Keyed =>
        /\ \A i \in 1..2 :
              LET evt == analysisIn[i]
                  key == analysisOut.keys[i]
              IN  /\ KeyedAsDetection(evt) =>
                         key = <<"d", "e", "t", ":">> \o evt.payload.detection_id.s
                  /\ KeyedAsTelemetry(evt) =>
                         key = <<"t", "e", "l", ":">> \o evt.payload.drone_id.s
                                   \o <<":">> \o NatToStr(WindowOf(evt))
                  /\ ({"detection_id", "drone_id"} \cap DOMAIN evt.payload = {}) =>
                         key = <<"e", "v", "t", ":">> \o evt.id.s
        /\ (KeyedAsTelemetry(analysisIn[1]) /\ KeyedAsTelemetry(analysisIn[2])) =>
              (analysisOut.keys[1] = analysisOut.keys[2]
                  <=> /\ analysisIn[1].payload.drone_id = analysisIn[2].payload.drone_id
                      /\ WindowOf(analysisIn[1]) = WindowOf(analysisIn[2]))
        /\ (KeyedAsDetection(analysisIn[1]) /\ KeyedAsDetection(analysisIn[2])
                /\ analysisIn[1].payload.detection_id
                       = analysisIn[2].payload.detection_id) =>
              analysisOut.keys[1] = analysisOut.keys[2]

\* Two telemetry events of one drone with different ids, 100 ms apart in one
\* window, have the key "tel:D1:0".
C20_Witness ==
    /\ Keyed
    /\ analysisIn = <<EvT1, EvT2>>
    /\ analysisIn[1].id # analysisIn[2].id
    /\ analysisOut.keys = <<<<"t", "e", "l", ":", "D", "1", ":", "0">>,
                            <<"t", "e", "l", ":", "D", "1", ":", "0">>>>

----------------------------------------------------------------------------
(* The records push drops *)

\* The record has an id, a type, an object payload and a ts that is a number
\* or a string, none of them falsy.
WellFormed(evt) ==
    /\ evt.k = "object"
    /\ \A f \in {"id", "ts", "type", "payload"} : f \in DOMAIN evt /\ Truthy(evt[f])
    /\ evt.ts.k \in {"number", "string"}
    /\ evt.payload.k = "object"

\* C23: push leaves the index and the feed unchanged for every record that
\* fails validateEvent (null or no object, id, ts or type missing or falsy, a
\* ts that is neither number nor string, a payload missing or no object), and
\* accepts every record with id, type, an object payload and a numeric or
\* string ts: after the push the index holds the record.
C23_PushValidates ==
    [][IsPush =>
          LET evt == lastPush'.evt
          IN  /\ ~WellFormed(evt) => (indexRef' = indexRef /\ feedRef' = feedRef)
              /\ WellFormed(evt) =>
                    \E i \in 1..Len(indexRef') : indexRef'[i].value = evt
    ]_vars

----------------------------------------------------------------------------
(* snapshot() and the feed *)

\* The positions of the feed whose key no later position has.
LastOfKey == {i \in 1..Len(feedRef) :
                 \A j \in (i + 1)..Len(feedRef) :
                     eventKey(feedRef[j]) # eventKey(feedRef[i])}

\* C24: snapshot() is the feed in feed order with, for every logical key, only
\* the entry appended last kept, and has at most capFeed entries.
C24_SnapshotKeepsLast ==
    LET IsLast(i) == i \in LastOfKey
        kept == SelectSeq([i \in 1..Len(feedRef) |-> i], IsLast)
    IN  /\ snapshot = [n \in 1..Len(kept) |-> feedRef[kept[n]]]
        /\ Len(snapshot) <= capFeed

\* The feed holds two entries of one key around an entry of another key;
\* snapshot() is the last two entries.
C24_Witness ==
    /\ Len(feedRef) = 3
    /\ eventKey(feedRef[1]) = eventKey(feedRef[3])
    /\ eventKey(feedRef[2]) # eventKey(feedRef[3])
    /\ feedRef[1] # feedRef[3]
    /\ snapshot = <<feedRef[2], feedRef[3]>>

----------------------------------------------------------------------------
(* The index and the feed by their capacities *)

\* The feed holds two entries of one logical key.
FeedRepeatsKey == \E i, j \in 1..Len(feedRef) :
                      i < j /\ eventKey(feedRef[i]) = eventKey(feedRef[j])

\* C27: when capIndex >= capFeed the key of every feed entry is in the index,
\* the feed holds no two entries of one key and snapshot() is the feed; two
\* feed entries of one key need capIndex < capFeed.
C27_IndexCoversFeed ==
    /\ capIndex >= capFeed =>
          /\ \A i \in 1..Len(feedRef) : LruHas(indexRef, eventKey(feedRef[i]))
          /\ ~FeedRepeatsKey
          /\ snapshot = feedRef
    /\ FeedRepeatsKey => capIndex < capFeed

\* capIndex >= capFeed, the feed is full and has been trimmed while the index
\* still holds the key of the trimmed entry, and the last push was of a key
\* the index held.
C27_Witness ==
    /\ capIndex >= capFeed
    /\ Len(feedRef) = capFeed
    /\ Len(indexRef) > Len(feedRef)
    /\ lastPush.k = "push" /\ lastPush.known
    /\ snapshot = feedRef

\* capIndex < capFeed: the key of a feed entry has left the index and the feed
\* holds a second entry of it.
C27_EvictedWhileInFeed ==
    /\ capIndex < capFeed
    /\ FeedRepeatsKey
    /\ \E i \in 1..Len(feedRef) : ~LruHas(indexRef, eventKey(feedRef[i]))

----------------------------------------------------------------------------
(* A second event of a key the index and the feed hold *)

\* The event the index holds under the key of evt.
IndexedAs(evt) ==
    (CHOOSE e \in {indexRef[i] : i \in 1..Len(indexRef)} : e.key = eventKey(evt)).value

\* The push in this step is of a valid event E2, not in the feed, whose key the
\* index holds with an earlier event E1 that is in the feed.
PushOfShownKey ==
    /\ IsPush
    /\ HasKey(lastPush'.evt)
    /\ LruHas(indexRef, eventKey(lastPush'.evt))
    /\ IndexedAs(lastPush'.evt) # lastPush'.evt
    /\ \E i \in 1..Len(feedRef) : feedRef[i] = IndexedAs(lastPush'.evt)
    /\ \A i \in 1..Len(feedRef) : feedRef[i] # lastPush'.evt

\* C28: pushing a valid event E2 whose key is that of an earlier E1 still in
\* the index and the feed leaves snapshot() as it was: the entry shown under
\* the key is E1, and E2 is stored in the index only.
C28_SnapshotShowsFirst ==
    [][PushOfShownKey =>
          \E E2 \in {lastPush'.evt}, E1 \in {IndexedAs(lastPush'.evt)},
             shown \in {snapshotOf(feedRef')} :
              /\ shown = snapshotOf(feedRef)
              /\ \E i \in 1..Len(shown) : shown[i] = E1
              /\ \A i \in 1..Len(shown) :
                    eventKey(shown[i]) = eventKey(E2) => shown[i] = E1
              /\ \A i \in 1..Len(feedRef') : feedRef'[i] # E2
              /\ \E i \in 1..Len(indexRef') :
                    indexRef'[i].key = eventKey(E2) /\ indexRef'[i].value = E2
    ]_vars

\* E1 is in the feed and shown by snapshot(); the last push was of E2 with
\* E1's key, which the index now holds instead of E1.
C28_Witness ==
    /\ lastPush.k = "push" /\ lastPush.known
    /\ HasKey(lastPush.evt)
    /\ \E i \in 1..Len(snapshot) :
          /\ eventKey(snapshot[i]) = eventKey(lastPush.evt)
          /\ snapshot[i] # lastPush.evt
    /\ \E i \in 1..Len(indexRef) : indexRef[i].value = lastPush.evt
    /\ \A i \in 1..Len(feedRef) : feedRef[i] # lastPush.evt

----------------------------------------------------------------------------
(* What one subscriber is sent of the accepted events *)

\* The events of the catch-up snapshot sent to socket c, if one was sent.
CaughtUp(c) ==
    IF Len(inbox[c]) >= 2 /\ inbox[c][2].kind = "snapshot"
    THEN inbox[c][2].events ELSE <<>>

\* The events of the live 'event' messages sent to socket c, in order.
Live(c) ==
    LET IsEvent(m) == m.kind = "event"
        msgs == SelectSeq(inbox[c], IsEvent)
    IN  [i \in 1..Len(msgs) |-> msgs[i].event]

\* C26: the catch-up snapshot of a subscriber followed by its live messages is
\* one run of consecutive accepted events, none twice: the snapshot ends with
\* the event accepted last before the connection, the live messages are the
\* events accepted after it, each once, and while the subscriber is open they
\* reach to the event accepted last.
C26_SnapshotThenLive ==
    \A c \in Sockets :
        LET sent == CaughtUp(c) \o Live(c)
        IN  \E start \in 1..(Len(hist.events) + 1) :
               /\ start + Len(sent) - 1 <= Len(hist.events)
               /\ \A i \in 1..Len(sent) :
                     sent[i] = JsonRoundTrip(hist.events[start + i - 1])
               /\ CaughtUp(c) = <<>> => start = 1
               /\ readyState[c] = "OPEN" => start + Len(sent) - 1 = Len(hist.events)

\* A subscriber connected after two events were accepted and caught up on the
\* last of them only; a third event was accepted while it was open: it was sent
\* the second in the snapshot and the third live, and the first not at all.
C26_Witness ==
    \E c \in Sockets :
        /\ readyState[c] = "OPEN"
        /\ Len(hist.events) = 3
        /\ CaughtUp(c) = <<JsonRoundTrip(hist.events[2])>>
        /\ Live(c) = <<JsonRoundTrip(hist.events[3])>>
        /\ JsonRoundTrip(hist.events[1]) # JsonRoundTrip(hist.events[2])
----------------------------------------------------------------------------
(* groupOverlappingDetections, one loop iteration at a time *)

MaxWalk == 3        \* detections of a snapshot that is walked step by step

WalkSnapshots ==
    {[i \in 1..Len(shapes) |-> DetectionOf(i, shapes[i])] :
        shapes \in SeqsUpTo(Shapes, MaxWalk)}

\* dist <= thresholdMeters of the inner loop, for the default threshold,
\* tabulated over the payloads a detection of the snapshots can have.
WithinReach ==
    LET Payloads == {shape.payload : shape \in {x \in Shapes : Locatable(x)}}
    IN  [cp \in Payloads |->
            [candPayload \in Payloads |->
                WithinThreshold(
                    haversineDistanceMeters(cp.lat, cp.lon,
                                            candPayload.lat, candPayload.lon),
                    DefaultThresholdMeters)]]

\* Mutant: the inner loop does not look at the enqueued set.
candidatesIgnoringEnqueued(safe, idx, used, enqueued) ==
    LET cp == safePayload(Get(safe[idx], "payload"))
        Near(j) ==
            /\ j \notin used
            /\ Locatable(safe[j])
            /\ WithinReach[cp][safePayload(Get(safe[j], "payload"))]
    IN  SelectSeq([j \in 1..Len(safe) |-> j], Near)

\* The inner for loop over j: the indices pushed on the queue for member idx,
\* used holding idx already.
candidates(safe, idx, used, enqueued) ==
    LET cp == safePayload(Get(safe[idx], "payload"))
        Near(j) ==
            /\ j \notin used
            /\ j \notin enqueued
            /\ Locatable(safe[j])
            /\ WithinReach[cp][safePayload(Get(safe[j], "payload"))]
    IN  SelectSeq([j \in 1..Len(safe) |-> j], Near)

\* The locals on entry: groups and used are empty and i is the first index.
\* members and groups hold indices of safe in place of the detections and of
\* the summaries made from them. pushes, joined and steps are history: every
\* queue.push with its seed, every members.push, and the loop iterations so far.
walkEntry ==
    [pc |-> "for", i |-> 1, groups |-> <<>>, used |-> {}, queue |-> <<>>,
     enqueued |-> {}, members |-> <<>>, pushes |-> <<>>, joined |-> <<>>,
     steps |-> 0]

\* One iteration of the outer for loop, or its exit.
walkFor(w, safe) ==
    IF w.i > Len(safe) THEN [w EXCEPT !.pc = "done", !.steps = @ + 1]
    ELSE IF w.i \in w.used \/ ~Locatable(safe[w.i])
    THEN [w EXCEPT !.i = @ + 1, !.steps = @ + 1]
    ELSE [w EXCEPT !.pc = "while", !.queue = <<w.i>>, !.enqueued = {w.i},
                   !.members = <<>>, !.steps = @ + 1,
                   !.pushes = Append(@, [seed |-> w.i, idx |-> w.i])]

\* One iteration of the while loop, or its exit into the rest of the for body,
\* where more than one member makes a group.
walkWhile(w, safe) ==
    IF w.queue = <<>>
    THEN [w EXCEPT !.pc = "for", !.i = @ + 1, !.steps = @ + 1,
                   !.groups = IF Len(w.members) > 1 THEN Append(@, w.members)
                              ELSE @]
    ELSE LET idx == w.queue[Len(w.queue)]
             rest == SubSeq(w.queue, 1, Len(w.queue) - 1)
             found == candidates(safe, idx, w.used \cup {idx}, w.enqueued)
         IN  IF idx \in w.used
             THEN [w EXCEPT !.queue = rest, !.steps = @ + 1]
             ELSE IF ~Locatable(safe[idx])
             THEN [w EXCEPT !.queue = rest, !.used = @ \cup {idx}, !.steps = @ + 1]
             ELSE [w EXCEPT !.queue = rest \o found,
                            !.enqueued = @ \cup Range(found),
                            !.used = @ \cup {idx},
                            !.members = Append(@, idx),
                            !.joined = Append(@, idx),
                            !.steps = @ + 1,
                            !.pushes = @ \o [n \in 1..Len(found) |->
                                                [seed |-> w.i, idx |-> found[n]]]]

InitWalk ==
    /\ InitBackend({c \in WsConfigs : c.defaultEventLimit = 1})
    /\ InitBuffer
    /\ InitApp
    /\ analysisIn \in WalkSnapshots
    /\ analysisOut = Null

\* analyzeData calls groupOverlappingDetections(safeDetections).
WalkCall ==
    /\ walk = Null
    /\ walk' = walkEntry
    /\ UNCHANGED <<version, merged, memoRuns, lastSigRef, dashTelemetry,
                   dashDetections, poll>>
    /\ UNCHANGED analyticsVars
    /\ UNCHANGED backendVars
    /\ UNCHANGED bufferVars

\* The next iteration of the loop the function is in, or the exit of the
\* outer loop.
WalkStep ==
    /\ walk # Null
    /\ walk.pc # "done"
    /\ walk' = IF walk.pc = "for" THEN walkFor(walk, analysisIn)
               ELSE walkWhile(walk, analysisIn)
    /\ UNCHANGED <<version, merged, memoRuns, lastSigRef, dashTelemetry,
                   dashDetections, poll>>
    /\ UNCHANGED analyticsVars
    /\ UNCHANGED backendVars
    /\ UNCHANGED bufferVars

NextWalk == WalkCall \/ WalkStep

SpecWalk == InitWalk /\ [][NextWalk]_vars

\* The function is synchronous: once called, nothing keeps it from taking its
\* next step.
SpecWalkFair == SpecWalk /\ WF_vars(NextWalk)

Returned == walk # Null /\ walk.pc = "done"

NoRepeat(s) == \A a, b \in 1..Len(s) : a # b => s[a] # s[b]

\* The groups of the walk are, member for member, the groups the function is
\* modelled to return.
WalkAgrees ==
    Returned =>
        LET groups == groupOverlappingDetections(analysisIn, DefaultThresholdMeters,
                                                 AnalysisClock)
        IN  /\ Len(groups) = Len(walk.groups)
            /\ {Range(walk.groups[g]) : g \in 1..Len(walk.groups)} =
                   {MemberIndices(groups[g]) : g \in 1..Len(groups)}

\* C29: groupOverlappingDetections leaves its loops for every input, and when
\* it does no index has been pushed on the queue twice for one seed, none has
\* been added to members twice, over all components, and the loop iterations
\* number no more than three per detection plus one.
C29_WalkTerminates ==
    <>(/\ Returned
       /\ NoRepeat(walk.pushes)
       /\ NoRepeat(walk.joined)
       /\ walk.steps <= 3 * Len(analysisIn) + 1)

\* The function left its loops for B, B, C: from the first seed both others
\* were enqueued, and C, popped first, was in reach of the B still in the
\* queue. The one group is the group the function is modelled to return.
C29_Witness ==
    /\ Returned
    /\ Len(analysisIn) = 3
    /\ analysisIn[1].payload = ShapeB.payload
    /\ analysisIn[2].payload = ShapeB.payload
    /\ analysisIn[3].payload = ShapeC.payload
    /\ walk.joined = <<1, 3, 2>>
    /\ Len(walk.pushes) = 3
    /\ walk.groups = <<(<<1, 3, 2>>)>>
    /\ WalkAgrees
----------------------------------------------------------------------------
(* The App component: its handlers and the flush timer *)

MaxCalls == 3         \* handler calls over a run
MaxFlush == 2         \* ticks of the flush timer over a run
AppCapFeed == 2       \* stands for the App's capFeed of 400
AppCapIndex == 3      \* stands for the App's capIndex of 2000
TelemetryKept == 2    \* stands for the 50 of telemetry's slice(-50)
DetectionsKept == 2   \* stands for the 100 of detections' slice(0, 100)

sD3 == <<"D", "3">>
sX2 == <<"X", "2">>
sUrl == <<"u">>

\* String(Math.round((v ?? 0) * 1e6)) of a payload field.
sigField(v) ==
    ToStr(IF v.k \in {"undefined", "null"} THEN NumV(0)
          ELSE IF v.k = "number" THEN NumV(v.n * 1000000)
          ELSE NaN)

\* Array.prototype.join("|")
RECURSIVE JoinBar(_)
JoinBar(parts) ==
    IF parts = <<>> THEN <<>>
    ELSE IF Len(parts) = 1 THEN parts[1]
    ELSE parts[1] \o <<"|">> \o JoinBar(Tail(parts))

\* onTelemetry's sig of the payload p.
sig(p) ==
    JoinBar([n \in 1..7 |->
                sigField(Get(p, <<"lat", "lon", "alt", "heading", "speed",
                                  "battery", "status">>[n]))])

\* prev.findIndex(x => x.payload?.drone_id === id), 0 for -1.
findDrone(prev, id) ==
    IF \E i \in 1..Len(prev) : PayloadGet(prev[i], "drone_id") = id
    THEN CHOOSE i \in 1..Len(prev) :
             /\ PayloadGet(prev[i], "drone_id") = id
             /\ \A j \in 1..(i - 1) : PayloadGet(prev[j], "drone_id") # id
    ELSE 0

\* Array.prototype.slice(-n) and slice(0, n)
SliceFirst(list, n) == SubSeq(list, 1, Min(Len(list), n))

\* The updater onTelemetry gives setTelemetry for an event of a new signature.
setTelemetryNew(prev, evt, id) ==
    LET idx == findDrone(prev, id)
    IN  IF idx > 0
        THEN SliceLast([prev EXCEPT ![idx] = evt], TelemetryKept)
        ELSE SliceLast(Append(prev, evt), TelemetryKept)

\* The updater onTelemetry gives setTelemetry for an event of the signature
\* recorded last.
setTelemetrySame(prev, evt, id) ==
    LET i == findDrone(prev, id)
    IN  IF i = 0 THEN prev
        ELSE IF JsGreater(TsOf(evt), TsOf(prev[i])) THEN [prev EXCEPT ![i] = evt]
        ELSE prev

\* onTelemetry(evt) on app = the buffer's index and feed, lastSigRef.current and
\* the telemetry and detections states. A push that throws ends the handler.
onTelemetry(app, evt) ==
    IF ~validateEvent(evt) THEN app
    ELSE LET p == safePayload(Get(evt, "payload"))
             id == Get(p, "drone_id")
             buf == push([index |-> app.index, feed |-> app.feed], evt)
         IN  IF ~Truthy(id) THEN app
             ELSE IF MapGet(app.lastSig, id) = StrV(sig(p))
             THEN IF eventKey(evt) = Throws THEN app
                  ELSE [app EXCEPT !.index = buf.index, !.feed = buf.feed,
                                   !.telemetry = setTelemetrySame(@, evt, id)]
             ELSE IF eventKey(evt) = Throws
             THEN [app EXCEPT !.lastSig = MapPut(@, id, StrV(sig(p)))]
             ELSE [app EXCEPT !.lastSig = MapPut(@, id, StrV(sig(p))),
                              !.index = buf.index, !.feed = buf.feed,
                              !.telemetry = setTelemetryNew(@, evt, id)]

\* e.payload?.detection_id || e.id
detectionId(e) ==
    IF Truthy(PayloadGet(e, "detection_id")) THEN PayloadGet(e, "detection_id")
    ELSE Get(e, "id")

\* new Map(prev.map(e => [detectionId(e), e])) from entry i on.
RECURSIVE mapOfDetections(_, _, _)
mapOfDetections(prev, i, m) ==
    IF i > Len(prev) THEN m
    ELSE mapOfDetections(prev, i + 1, MapPut(m, detectionId(prev[i]), prev[i]))

\* { ...a, ...b }
Spread(a, b) ==
    [f \in DOMAIN a \cup DOMAIN b |-> IF f \in DOMAIN b THEN b[f] ELSE a[f]]

\* merged: the fields of evt over those of old, payloads likewise, and old's
\* snapshot_url where evt has none.
mergeDetection(old, evt) ==
    LET payload == Spread(old.payload, evt.payload)
        keepUrl == /\ ~Truthy(PayloadGet(evt, "snapshot_url"))
                   /\ Truthy(PayloadGet(old, "snapshot_url"))
    IN  [Spread(old, evt) EXCEPT
            !.payload = IF keepUrl
                        THEN Spread(payload,
                                    [snapshot_url |-> old.payload.snapshot_url])
                        ELSE payload]

\* Mutant: the merged entry is stored whatever the two timestamps are.
setDetectionsAlwaysMerges(prev, evt) ==
    LET id == detectionId(evt)
        map == mapOfDetections(prev, 1, <<>>)
        old == MapGet(map, id)
        set == IF ~Truthy(old) THEN MapPut(map, id, evt)
               ELSE MapPut(map, id, mergeDetection(old, evt))
        arr == SliceFirst(sortByTsDesc([i \in 1..Len(set) |-> set[i].value]),
                          DetectionsKept)
    IN  Reverse(arr)

\* The updater onDetection gives setDetections.
setDetections(prev, evt) ==
    LET id == detectionId(evt)
        map == mapOfDetections(prev, 1, <<>>)
        old == MapGet(map, id)
        set == IF ~Truthy(old) THEN MapPut(map, id, evt)
               ELSE IF ~JsGreater(TsOf(old), TsOf(evt)) /\ TsOf(evt) # NaN
                       /\ TsOf(old) # NaN
               THEN MapPut(map, id, mergeDetection(old, evt))
               ELSE map
        arr == SliceFirst(sortByTsDesc([i \in 1..Len(set) |-> set[i].value]),
                          DetectionsKept)
    IN  Reverse(arr)

\* onDetection(evt) on app. A push that throws ends the handler.
onDetection(app, evt) ==
    IF ~validateEvent(evt) \/ eventKey(evt) = Throws THEN app
    ELSE LET buf == push([index |-> app.index, feed |-> app.feed], evt)
         IN  [app EXCEPT !.index = buf.index, !.feed = buf.feed,
                         !.detections = setDetections(@, evt)]

\* The events the handlers are called with. Telemetry of drone D1: three events
\* of one signature, the second in the 250 ms window of the first, the third in
\* a later window, and one of another signature; one event each of drones D2
\* and D3; one with a type that is no string. Detections: three events of
\* detection X1, the first with a snapshot_url, the second older, the third
\* newer; one of detection X2 with an ISO timestamp; one without detection_id.
AppTel(id, drone, ts, lat) ==
    [k |-> "object", id |-> StrV(id), ts |-> NumV(ts), type |-> StrV(sTelemetryUpdate),
     payload |-> [k |-> "object", drone_id |-> StrV(drone), lat |-> NumV(lat)]]

AppDet(id, ts, payload) ==
    [k |-> "object", id |-> StrV(id), ts |-> ts, type |-> StrV(sDetectionNew),
     payload |-> payload]

TelA1 == AppTel(sA, sD1, 100, 0)
TelA2 == AppTel(sB, sD1, 200, 0)
TelA3 == AppTel(sC, sD1, 300, 0)
TelA4 == AppTel(sE, sD1, 150, 1)
TelB1 == AppTel(sA, sD2, 100, 0)
TelC1 == AppTel(sA, sD3, 100, 0)
TelNumType == [TelA1 EXCEPT !.type = NumV(7)]
DetX1 == AppDet(sA, NumV(200), [k |-> "object", detection_id |-> StrV(sX1),
                                snapshot_url |-> StrV(sUrl)])
DetX1Older == AppDet(sB, NumV(100), [k |-> "object", detection_id |-> StrV(sX1)])
DetX1Newer == AppDet(sC, NumV(300), [k |-> "object", detection_id |-> StrV(sX1)])
DetX2 == AppDet(sA, StrV(sIso1), [k |-> "object", detection_id |-> StrV(sX2)])
DetNoId == AppDet(sE, NumV(150), [k |-> "object"])

TelemetryCalls == {TelA1, TelA2, TelA3, TelA4, TelB1, TelC1, TelNumType}

DetectionCalls == {DetX1, DetX1Older, DetX1Newer, DetX2, DetNoId}

\* The App mounted: useEventBuffer's refs and version, the memo of the first
\* render, lastSigRef and the two states.
InitDashboard ==
    /\ InitBackend({c \in WsConfigs : c.defaultEventLimit = 1})
    /\ InitAnalytics
    /\ capFeed = AppCapFeed
    /\ capIndex = AppCapIndex
    /\ feedRef = <<>>
    /\ indexRef = <<>>
    /\ lastPush = Null
    /\ walk = Null
    /\ poll = Null
    /\ version = 0
    /\ merged = snapshotOf(<<>>)
    /\ memoRuns = 1
    /\ lastSigRef = <<>>
    /\ dashTelemetry = <<>>
    /\ dashDetections = <<>>

CallsSoFar == IF lastPush = Null THEN 0 ELSE lastPush.calls

\* Mutant: the memo is computed in every render.
useMemoEveryRender(memo, deps, feed) ==
    [value |-> snapshotOf(feed), deps |-> deps, runs |-> memo.runs + 1]

\* useMemo(() => buf.snapshot(), [buf.version]) in a render: the memoised value
\* is kept unless the dependency differs from that of the last render.
useMemo(memo, deps, feed) ==
    IF deps # memo.deps
    THEN [value |-> snapshotOf(feed), deps |-> deps, runs |-> memo.runs + 1]
    ELSE memo

\* The render after a state update.
Render ==
    \E memo \in {useMemo([value |-> merged, deps |-> version, runs |-> memoRuns],
                          version', feedRef')} :
        /\ merged' = memo.value
        /\ memoRuns' = memo.runs

\* A handler has run: its effects, and the render that follows. lastPush
\* records the call and the signature recorded for the drone before it.
Handled(handler, evt, app) ==
    /\ indexRef' = app.index
    /\ feedRef' = app.feed
    /\ lastSigRef' = app.lastSig
    /\ dashTelemetry' = app.telemetry
    /\ dashDetections' = app.detections
    /\ lastPush' = [k |-> handler, evt |-> evt, calls |-> CallsSoFar + 1,
                    prevSig |-> MapGet(lastSigRef,
                                       Get(safePayload(Get(evt, "payload")),
                                           "drone_id"))]
    /\ version' = version
    /\ Render
    /\ UNCHANGED <<capFeed, capIndex, walk, poll>>
    /\ UNCHANGED backendVars
    /\ UNCHANGED analyticsVars

AppState ==
    [index |-> indexRef, feed |-> feedRef, lastSig |-> lastSigRef,
     telemetry |-> dashTelemetry, detections |-> dashDetections]

OnTelemetry(evt) ==
    /\ CallsSoFar < MaxCalls
    /\ \E app \in {onTelemetry(AppState, evt)} : Handled("onTelemetry", evt, app)

OnDetection(evt) ==
    /\ CallsSoFar < MaxCalls
    /\ \E app \in {onDetection(AppState, evt)} : Handled("onDetection", evt, app)

\* The flush timer ticks: setVersion(v => v + 1), and the render that follows.
Flush ==
    /\ version < MaxFlush
    /\ version' = version + 1
    /\ UNCHANGED bufferVars
    /\ Render
    /\ UNCHANGED <<walk, poll, lastSigRef, dashTelemetry, dashDetections>>
    /\ UNCHANGED backendVars
    /\ UNCHANGED analyticsVars

NextDashboard ==
    \/ \E evt \in TelemetryCalls : OnTelemetry(evt)
    \/ \E evt \in DetectionCalls : OnDetection(evt)
    \/ Flush

SpecDashboard == InitDashboard /\ [][NextDashboard]_vars

IsCall(handler) == lastPush' # lastPush /\ lastPush'.k = handler

\* C25: an onTelemetry call with an event whose signature is the one recorded
\* last for its drone does not grow the feed: its push only sets a key the index
\* holds already.
C25_SameSignatureKeepsFeed ==
    [][(/\ IsCall("onTelemetry")
        /\ validateEvent(lastPush'.evt)
        /\ lastPush'.prevSig = StrV(sig(lastPush'.evt.payload))) =>
          /\ feedRef' = feedRef
          /\ KeysOf(indexRef') = KeysOf(indexRef)
    ]_vars


\* C22: a handler call, whatever it pushes, leaves merged as it is and does not
\* compute the memo; merged changes only in a step in which the flush timer
\* ticks, and after a tick it is snapshot() of the buffer as the tick found it.
C22_MergedChangesAtFlush ==
    [][/\ (IsCall("onTelemetry") \/ IsCall("onDetection")) =>
             /\ merged' = merged
             /\ memoRuns' = memoRuns
       /\ (merged' # merged \/ memoRuns' # memoRuns) => version' = version + 1
       /\ version' # version =>
             /\ feedRef' = feedRef
             /\ merged' = snapshotOf(feedRef)
             /\ memoRuns' = memoRuns + 1
    ]_vars

\* The timer ticked after the first push, and a second push has since grown
\* the feed: merged still is the one entry of the tick.
C22_Witness ==
    /\ version = 1
    /\ lastPush # Null /\ lastPush.calls = 2
    /\ Len(feedRef) = 2
    /\ merged = <<feedRef[1]>>
    /\ snapshot = feedRef
    /\ memoRuns = 2

----------------------------------------------------------------------------
(* The polling consumers: the App's HTTP poll loop and useEventFeed *)

MaxInflight == 2      \* fetches of useEventFeed in flight at once

\* What a fetch of the poll URL comes to: the fetch rejects, or the body is no
\* JSON, or it is JSON, with response.ok or without.
Rejected == [k |-> "rejected"]
NotJson == [k |-> "notJson", ok |-> TRUE]
JsonOf(ok, body) == [k |-> "json", ok |-> ok, body |-> body]

PollResponses ==
    {Rejected, NotJson,
     JsonOf(TRUE, ArrayV(<<TelA1, DetX1, TelNumType, TelB1>>)),
     JsonOf(FALSE, [k |-> "object"])}

\* The for loop of the poll loop over arr from message i on; a message whose
\* type is no string makes t.startsWith throw, which ends the loop.
RECURSIVE pollDispatch(_, _, _)
pollDispatch(app, arr, i) ==
    IF i > Len(arr) THEN app
    ELSE LET type == Get(arr[i], "type")
             t == IF Truthy(type) THEN type ELSE StrV(<<>>)
         IN  IF t.k # "string" THEN app
             ELSE IF StartsWith(t.s, sTelemetry)
             THEN pollDispatch(onTelemetry(app, arr[i]), arr, i + 1)
             ELSE IF StartsWith(t.s, sDetection)
             THEN pollDispatch(onDetection(app, arr[i]), arr, i + 1)
             ELSE pollDispatch(app, arr, i + 1)

\* Mutant: the loop has no try/catch, a failed cycle ends it.
loopSettleUncaught(p, app, resp) ==
    IF resp.k \in {"rejected", "notJson"}
    THEN [poll |-> [p EXCEPT !.pc = "exited", !.failed = TRUE, !.cycle = 1 - @],
          app |-> app]
    ELSE [poll |-> [p EXCEPT !.pc = "sleeping", !.failed = FALSE, !.cycle = 1 - @],
          app |-> IF resp.body.k = "array" THEN pollDispatch(app, resp.body.items, 1)
                  ELSE app]

\* The body of the poll loop's try from the settling of fetch on, and the
\* catch: after either the loop sleeps. failed and cycle are history: whether the
\* cycle failed, and a bit that every cycle flips.
loopSettle(p, app, resp) ==
    IF resp.k \in {"rejected", "notJson"}
    THEN [poll |-> [p EXCEPT !.pc = "sleeping", !.failed = TRUE, !.cycle = 1 - @],
          app |-> app]
    ELSE [poll |-> [p EXCEPT !.pc = "sleeping", !.failed = FALSE, !.cycle = 1 - @],
          app |-> IF resp.body.k = "array" THEN pollDispatch(app, resp.body.items, 1)
                  ELSE app]

\* fetchEvents of useEventFeed from the settling of fetch on. hookFailed and
\* hookCycle are history, as above; sinceFail tells whether a fetch was issued
\* since the last failed one.
hookSettle(p, resp) ==
    LET failed == resp.k \in {"rejected", "notJson"} \/ ~resp.ok
        done == [p EXCEPT !.inflight = @ - 1, !.hookFailed = failed,
                          !.hookCycle = 1 - @]
    IN  IF ~p.active THEN done
        ELSE IF failed
        THEN [done EXCEPT !.error = "error", !.loading = FALSE, !.sinceFail = FALSE]
        ELSE [done EXCEPT !.events = resp.body, !.error = "null", !.loading = FALSE]

\* Both consumers mounted: the loop has issued its first fetch, useEventFeed
\* has called fetchEvents once and set its interval.
InitPoll ==
    /\ InitBackend({c \in WsConfigs : c.defaultEventLimit = 1})
    /\ InitAnalytics
    /\ capFeed = AppCapFeed
    /\ capIndex = AppCapIndex
    /\ feedRef = <<>>
    /\ indexRef = <<>>
    /\ lastPush = Null
    /\ walk = Null
    /\ version = 0
    /\ merged = snapshotOf(<<>>)
    /\ memoRuns = 1
    /\ lastSigRef = <<>>
    /\ dashTelemetry = <<>>
    /\ dashDetections = <<>>
    /\ poll = [pc |-> "fetching", stop |-> FALSE, failed |-> FALSE, cycle |-> 0,
               active |-> TRUE, inflight |-> 1, events |-> ArrayV(<<>>),
               error |-> "null", loading |-> TRUE, hookFailed |-> FALSE,
               sinceFail |-> TRUE, hookCycle |-> 0]

\* The loop's fetch settles and the cycle runs up to its sleep.
LoopSettle(resp) ==
    /\ poll.pc = "fetching"
    /\ \E st \in {loopSettle(poll, AppState, resp)} :
          /\ poll' = st.poll
          /\ indexRef' = st.app.index
          /\ feedRef' = st.app.feed
          /\ lastSigRef' = st.app.lastSig
          /\ dashTelemetry' = st.app.telemetry
          /\ dashDetections' = st.app.detections
    /\ version' = version
    /\ Render
    /\ UNCHANGED <<capFeed, capIndex, lastPush, walk>>
    /\ UNCHANGED backendVars
    /\ UNCHANGED analyticsVars

\* The loop's sleep ends: while (!stop) is tested, and fetch is called.
LoopTimer ==
    /\ poll.pc = "sleeping"
    /\ poll' = [poll EXCEPT !.pc = IF poll.stop THEN "exited" ELSE "fetching"]
    /\ UNCHANGED <<walk, version, merged, memoRuns, lastSigRef, dashTelemetry,
                   dashDetections>>
    /\ UNCHANGED bufferVars
    /\ UNCHANGED backendVars
    /\ UNCHANGED analyticsVars

\* The effect's cleanup of the poll loop.
LoopCleanup ==
    /\ ~poll.stop
    /\ poll' = [poll EXCEPT !.stop = TRUE]
    /\ UNCHANGED <<walk, version, merged, memoRuns, lastSigRef, dashTelemetry,
                   dashDetections>>
    /\ UNCHANGED bufferVars
    /\ UNCHANGED backendVars
    /\ UNCHANGED analyticsVars

\* useEventFeed's interval fires: fetchEvents issues a fetch.
HookTick ==
    /\ poll.active
    /\ poll.inflight < MaxInflight
    /\ poll' = [poll EXCEPT !.inflight = @ + 1, !.sinceFail = TRUE]
    /\ UNCHANGED <<walk, version, merged, memoRuns, lastSigRef, dashTelemetry,
                   dashDetections>>
    /\ UNCHANGED bufferVars
    /\ UNCHANGED backendVars
    /\ UNCHANGED analyticsVars

\* A fetch of useEventFeed settles.
HookSettle(resp) ==
    /\ poll.inflight > 0
    /\ poll' = hookSettle(poll, resp)
    /\ UNCHANGED <<walk, version, merged, memoRuns, lastSigRef, dashTelemetry,
                   dashDetections>>
    /\ UNCHANGED bufferVars
    /\ UNCHANGED backendVars
    /\ UNCHANGED analyticsVars

\* The effect's cleanup of useEventFeed: active = false, clearInterval.
HookCleanup ==
    /\ poll.active
    /\ poll' = [poll EXCEPT !.active = FALSE]
    /\ UNCHANGED <<walk, version, merged, memoRuns, lastSigRef, dashTelemetry,
                   dashDetections>>
    /\ UNCHANGED bufferVars
    /\ UNCHANGED backendVars
    /\ UNCHANGED analyticsVars

LoopSettles == \E resp \in PollResponses : LoopSettle(resp)

HookSettles == \E resp \in PollResponses : HookSettle(resp)

NextPoll ==
    \/ LoopSettles
    \/ LoopTimer
    \/ LoopCleanup
    \/ HookTick
    \/ HookSettles
    \/ HookCleanup

SpecPoll == InitPoll /\ [][NextPoll]_vars

\* Timers fire and fetches settle; a cleanup need never happen.
SpecPollFair ==
    /\ SpecPoll
    /\ WF_vars(LoopSettles)
    /\ WF_vars(LoopTimer)
    /\ WF_vars(HookTick)
    /\ WF_vars(HookSettles)

\* C21: a cycle of a polling consumer whose fetch or JSON parse fails delivers
\* nothing (the dashboard's states and the hook's events stay as they are) and
\* leaves the consumer running; the loop ends only after its cleanup; after a
\* failed cycle a fetch is issued again unless the consumer is cancelled; and
\* once cancelled a consumer issues no fetch.
C21_PollSurvivesFailure ==
    /\ [][/\ (poll'.cycle # poll.cycle /\ poll'.failed) =>
                /\ poll'.pc = "sleeping"
                /\ <<feedRef, indexRef, lastSigRef, dashTelemetry, dashDetections>>' =
                      <<feedRef, indexRef, lastSigRef, dashTelemetry, dashDetections>>
          /\ (poll'.hookCycle # poll.hookCycle /\ poll'.hookFailed) =>
                /\ poll'.events = poll.events
                /\ poll'.active = poll.active
          /\ poll.stop => ~(poll.pc # "fetching" /\ poll'.pc = "fetching")
          /\ ~poll.active => poll'.inflight <= poll.inflight
       ]_vars
    /\ [](poll.pc = "exited" => poll.stop)
    /\ (poll.pc = "sleeping" /\ poll.failed /\ ~poll.stop)
          ~> (poll.pc = "fetching" \/ poll.stop)
    /\ (poll.hookFailed /\ ~poll.sinceFail /\ poll.active)
          ~> (poll.sinceFail \/ ~poll.active)

\* The loop's last cycle failed after one that delivered a telemetry event and
\* a detection, and the loop has issued its next fetch; useEventFeed, whose
\* last fetch failed, has issued another.
C21_Witness ==
    /\ poll.pc = "fetching"
    /\ poll.failed
    /\ ~poll.stop
    /\ Len(dashTelemetry) = 1
    /\ Len(dashDetections) = 1
    /\ poll.active
    /\ poll.hookFailed
    /\ poll.sinceFail
    /\ poll.inflight = 1

====
